---- MODULE Spec2Model ----
(***************************************************************************)
(* Model of the chat view of the Ollama plugin (src/chatView.ts) and of    *)
(* the chat-history part of the plugin settings (src/main.ts).             *)
(*                                                                         *)
(* JavaScript arrays are objects: `this.messages`, the values of           *)
(* `settings.chatHistory` and the array that holds a generation's          *)
(* `responseMsg` are REFERENCES.  setChatHistory stores the reference it   *)
(* is given, so the model keeps a heap of arrays and every holder keeps an *)
(* array id.  saveData serialises the settings when it is called, so the   *)
(* durable copy is a value snapshot.                                       *)
(*                                                                         *)
(* Every await that waits for real I/O (saveData, vault.read, the HTTP     *)
(* request, the next chunk of the stream) is a point where other events    *)
(* of the single-threaded event loop may run; each action below is the     *)
(* code that runs between two such points.                                 *)
(*                                                                         *)
(* Text is a sequence of one-character strings.                            *)
(***************************************************************************)
EXTENDS Integers, Sequences, FiniteSets

\* ------------------------------------------------------------------ bounds
\* Spec: accepted submissions (turns), and document changes plus clicks on
\* Reset or Clear All History, in a behaviour; chunks one stream delivers
MaxTurns == 1
MaxEvents == 3
MaxDeltas == 2
\* SpecRace: the same, for behaviours with two overlapping turns
RaceTurns == 2
RaceEvents == 1
RaceDeltas == 1
\* SpecStream: chunks of the one stream
StreamDeltas == 3
\* SpecLive: events other than submissions, in behaviours with one turn and
\* chunks of its stream
LiveEvents == 2
LiveDeltas == 1
\* clear-all operations that may be waiting for their save at once
MaxPendingClear == 1
\* SpecRec: document changes and clicks on the recommendations toggle
RecEvents == 3
\* SpecModels: clicks in the settings tab, and ids in a model list
ModelEvents == 3
\* SpecParse: characters of a payload, and retries
MaxPayload == 3
ParseEvents == 1
MaxModels == 2

\* ------------------------------------------------------------------ inputs
DocSeq == <<"a.md", "b.md">>
Docs == {DocSeq[i] : i \in 1..Len(DocSeq)}
\* `null`: no active file / no current file path
NoFile == "null"
Paths == Docs \cup {NoFile}

\* values of inputEl.value when sendMessage runs
Texts == {<<" ", "\n">>, <<" ", "q", " ">>, <<"\r", "q", "\f">>}
\* content deltas of the stream's chunks ('' when a chunk carries no content)
Deltas == {<<>>, <<"H">>}
RaceDeltaSet == {<<"H">>}
StreamDeltaSet == {<<>>, <<"H", "e", "l">>, <<"l", "o">>, <<"!">>}

NTasks == IF MaxTurns > RaceTurns THEN MaxTurns ELSE RaceTurns
TaskIds == 1..NTasks
\* array ids: one per holder of a reference, and two spare for allocation
NArr == 1 + Len(DocSeq) + NTasks + 2
ArrIds == 1..NArr

VARIABLES
  heap,                  \* array id -> the entries of that array object
  messages,              \* OllamaChatView.messages: an array id
  chatHistory,           \* settings.chatHistory: path -> array id, 0 = no key
  durable,               \* what saveData last wrote: path -> [present, log]
  tasks,                 \* one record per sendMessage call that was accepted
  isSending,             \* OllamaChatView.isSending
  currentAbortController,\* 0 = null, t = the controller task t created
  currentFilePath,       \* OllamaChatView.currentFilePath
  activeFile,            \* app.workspace.getActiveFile()?.path
  suggestionAnchorIndex, \* OllamaChatView.suggestionAnchorIndex
  resetVisible,          \* resetBtnEl is displayed
  clearPending,          \* clearAllHistory calls waiting for their save
  env,                   \* the environment of this behaviour: [diskOk: saveData
                         \* succeeds, deltas: the chunks the backend may send,
                         \* maxDeltas: how many before the stream must end,
                         \* lag: MarkdownRenderer.render fills the element
                         \* after the caller has gone on, not during the call]
  budget,                \* what is left: [turns, events]
  lastOp,                \* history: the handler or continuation that ran last
  rt,                    \* history: progress of a switch-away-and-back
  effects,               \* history: what the last step did to the outside (the
                         \* persistence calls, Notices, requests it made)
  cancelled,             \* history: the generations that were in flight when
                         \* Reset or Clear All History ran, and still are
  cachedClient,          \* ollamaClient.ts: the module variable cachedClient
  enableRecommendations, \* settings.enableRecommendations
  refreshTimers,         \* setTimeout callbacks of onActiveFileChanged not yet run
  togglePending,         \* the toggle's onChange calls waiting for their save:
                         \* the `value` each of them was called with
  defaultModel,          \* settings.defaultModel
  panel,                 \* the recommendations panel: the cached suggestion set
                         \* and the document it belongs to, its status, and its
                         \* requests in flight
  screen,                \* messagesEl: for each bubble on display, the text of
                         \* its content element
  pendingRenders,        \* calls of MarkdownRenderer.render that have not
                         \* completed: [el: a bubble on display, markdown]
  activeResponseContentEl,\* 0 = null, i > 0: the content element of bubble i on
                         \* display, Detached: an element no longer in messagesEl
  viewOpen,              \* onOpen has run and onClose has not: recommendationsPanel
                         \* is not null and the view's 'file-open' and
                         \* 'active-leaf-change' listeners are registered
  settingTab             \* the settings tab: the model dropdown (options, disabled,
                         \* value), the Refresh button, and its handlers that
                         \* wait for models.list() or for saveSettings()

vars == <<heap, messages, chatHistory, durable, tasks, isSending,
          currentAbortController, currentFilePath, activeFile,
          suggestionAnchorIndex, resetVisible, clearPending, env, budget, lastOp, rt,
          effects, cancelled, cachedClient, enableRecommendations,
          refreshTimers, togglePending, defaultModel, settingTab,
          panel, screen, pendingRenders, activeResponseContentEl, viewOpen>>

\* ------------------------------------------------------------------ text
\* ECMAScript WhiteSpace: TAB, VT, FF, SP, U+00A0, U+FEFF and the space
\* separators, of which U+1680 stands here.  (A string here cannot hold
\* U+2000..U+200A, U+202F, U+205F and U+3000, which trim removes as well.)
WhiteSpace == {"\t", "", "\f", " ", " ", "﻿", " "}

\* ECMAScript LineTerminator: LF, CR.  (U+2028 and U+2029 are line terminators
\* too; a string here cannot hold them.)
LineTerminator == {"\n", "\r"}

\* what String.prototype.trim removes at both ends
IsWhite(c) == c \in WhiteSpace \cup LineTerminator

RECURSIVE TrimStart(_)
TrimStart(s) ==
  IF s # <<>> /\ IsWhite(Head(s)) THEN TrimStart(Tail(s)) ELSE s

RECURSIVE TrimEnd(_)
TrimEnd(s) ==
  IF s # <<>> /\ IsWhite(s[Len(s)]) THEN TrimEnd(SubSeq(s, 1, Len(s) - 1)) ELSE s

\* String.prototype.trim
Trim(s) == TrimEnd(TrimStart(s))

\* the texts of a sequence joined
RECURSIVE Concat(_)
Concat(ds) == IF ds = <<>> THEN <<>> ELSE Head(ds) \o Concat(Tail(ds))

\* ------------------------------------------------------------------ errors
\* What `await completions.create(...)` and the iteration of the stream can
\* throw.  `name` is error.name, `message` is error.message (a text).
\* After abort(): the DOMException of fetch, or the client library's own error.
AbortErrors ==
  {[name |-> "AbortError",
    message |-> <<"T", "h", "e", " ", "u", "s", "e", "r", " ", "a", "b", "o", "r", "t", "e", "d", " ", "a", " ", "r", "e", "q", "u", "e", "s", "t", ".">>],
   [name |-> "Error",
    message |-> <<"R", "e", "q", "u", "e", "s", "t", " ", "w", "a", "s", " ", "a", "b", "o", "r", "t", "e", "d", ".">>]}

\* Without abort(): the server cannot be reached, or it answers with an error
\* whose text is the server's (here: the model runner was killed by SIGABRT).
BackendErrors ==
  {[name |-> "Error",
    message |-> <<"C", "o", "n", "n", "e", "c", "t", "i", "o", "n", " ", "e", "r", "r", "o", "r", ".">>],
   [name |-> "Error",
    message |-> <<"5", "0", "0", " ", "l", "l", "a", "m", "a", " ", "r", "u", "n", "n", "e", "r", " ", "p", "r", "o", "c", "e", "s", "s", " ", "h", "a", "s", " ", "t", "e", "r", "m", "i", "n", "a", "t", "e", "d", ":", " ", "s", "i", "g", "n", "a", "l", ":", " ", "a", "b", "o", "r", "t", "e", "d">>]}

UpperCase ==
  <<"A", "B", "C", "D", "E", "F", "G", "H", "I", "J", "K", "L", "M", "N", "O", "P", "Q", "R", "S", "T", "U", "V", "W", "X", "Y", "Z">>
LowerCase ==
  <<"a", "b", "c", "d", "e", "f", "g", "h", "i", "j", "k", "l", "m", "n", "o", "p", "q", "r", "s", "t", "u", "v", "w", "x", "y", "z">>

ToLower(c) ==
  IF \E i \in 1..Len(UpperCase) : UpperCase[i] = c
    THEN LowerCase[CHOOSE i \in 1..Len(UpperCase) : UpperCase[i] = c]
    ELSE c

\* RegExp.test for a pattern of literal lower-case characters with the flag i
TestIgnoreCase(pattern, text) ==
  \E i \in 1..Len(text) :
    /\ i + Len(pattern) <= Len(text) + 1
    /\ \A j \in 1..Len(pattern) : ToLower(text[i + j - 1]) = pattern[j]

\* chatView.ts 368-370
WasAborted(error) ==
  error.name = "AbortError" \/ TestIgnoreCase(<<"a", "b", "o", "r", "t">>, error.message)

ChatFailedNotice == "Chat failed. Check Ollama and model settings."

\* ------------------------------------------------------------------ entries
\* `turn` is a history field: the accepted submission the entry belongs to.
RequestEntry(text, t) == [type |-> "request", content |-> text, turn |-> t]
Placeholder(t) == [type |-> "response", content |-> <<>>, turn |-> t]

\* hist, file: the locals fullHistory and activeFile of generateAssistantResponse
\* while it waits for the file read; log0 (history): the log they were taken from;
\* order (history): what the turn has done so far, in the order it did it;
\* moved (history): the document changes since the stream was opened;
\* end (history): whether the stream was exhausted with nothing having cancelled
\* the turn, and the chunks' text it had then delivered
IdleTask ==
  [pc |-> "idle", arr |-> 0, idx |-> 0, deltas |-> <<>>, doc |-> NoFile,
   aborted |-> FALSE, hist |-> <<>>, file |-> NoFile, log0 |-> <<>>,
   order |-> <<>>, moved |-> <<>>,
   end |-> [exhausted |-> FALSE, text |-> <<>>]]

\* history: turn t has now done `what`
Did(s, t, what) == [s EXCEPT !.tasks[t].order = Append(@, what)]

\* positions of a task inside generateAssistantResponse
GenPcs == {"read", "request", "stream", "persist2"}

\* ------------------------------------------------------------------ ollamaClient.ts
OLLAMA_BASE_URL == "http://localhost:11434/v1/"
OLLAMA_API_KEY == "ollama"
DEFAULT_OLLAMA_MODEL == "gpt-oss:20b"

\* an option that is not given
Undefined == "undefined"

\* A handle is an OpenAI object: serial tells the objects apart (the n-th one
\* constructed has serial n); serial 0 is null.
NoClient == [serial |-> 0, baseURL |-> Undefined, apiKey |-> Undefined]

\* the options a caller may pass; no options at all reads as both not given
ClientOptions ==
  [baseURL : {Undefined, "http://otherhost:8080/v1/"},
   apiKey : {Undefined, "secret"}]

NewOpenAI(cached, options) ==
  [serial |-> cached.serial + 1,
   baseURL |-> IF options.baseURL # Undefined THEN options.baseURL
                                              ELSE OLLAMA_BASE_URL,
   apiKey |-> IF options.apiKey # Undefined THEN options.apiKey
                                            ELSE OLLAMA_API_KEY]

\* a variant of getOllamaClient that constructs a handle on every call
GetOllamaClientNoCache(cached, options) == NewOpenAI(cached, options)

\* ollamaClient.ts 14-24: the handle returned, which is also the new cachedClient
GetOllamaClient(cached, options) ==
  IF cached # NoClient THEN cached ELSE NewOpenAI(cached, options)

\* ------------------------------------------------------------------ state record
\* The handlers are written as functions from state record to state record,
\* so that a handler can call another one as the code does.
\* `fx` collects what the handler that is running does to the outside.
NoEffects ==
  [saves |-> <<>>,       \* calls of the settings' persistence operations
   notices |-> <<>>,     \* new Notice(...)
   caught |-> <<>>,      \* the error generateAssistantResponse caught
   requests |-> <<>>,    \* message lists handed to completions.create
   clients |-> <<>>,     \* calls of getOllamaClient: [options, handle returned]
   refreshes |-> <<>>,   \* calls of recommendationsPanel.refresh(): [enabled: the
                         \* value of settings.enableRecommendations at the call]
   listings |-> <<>>,    \* calls of fetchOllamaModels that settled: [failed,
                         \* models: the list returned, thrown]
   recRequests |-> <<>>, \* recommendation requests issued: [doc]
   settled |-> <<>>,     \* recommendation requests that settled: [doc, aborted]
   suggested |-> <<>>,   \* what the calls of the panel's refresh returned at once
                         \* (the cached set), one entry per memoized call
   cleared |-> 0]        \* calls of recommendationsPanel.clearRecommendations()

S ==
  [heap |-> heap, messages |-> messages, chatHistory |-> chatHistory,
   durable |-> durable, tasks |-> tasks, isSending |-> isSending,
   cac |-> currentAbortController, cur |-> currentFilePath,
   active |-> activeFile, anchor |-> suggestionAnchorIndex,
   resetVisible |-> resetVisible, clearPending |-> clearPending,
   client |-> cachedClient, enabled |-> enableRecommendations,
   timers |-> refreshTimers, toggles |-> togglePending,
   defaultModel |-> defaultModel, tab |-> settingTab, panel |-> panel,
   screen |-> screen, renders |-> pendingRenders, lag |-> env.lag,
   el |-> activeResponseContentEl, open |-> viewOpen,
   fx |-> NoEffects]

\* A handler that reads the state it is given more than once is written
\*   CHOOSE r \in {(...s...) : s \in {s0}} : TRUE
\* which is (...s0...), with s0 worked out once.

MsgLog(s) == s.heap[s.messages]

Refs(s) ==
  ({s.messages} \cup {s.chatHistory[d] : d \in Docs}
     \cup {s.tasks[t].arr : t \in TaskIds}) \ {0}

\* a new array object: an id nothing refers to
FreshId(s) == CHOOSE a \in ArrIds \ Refs(s) : \A b \in ArrIds \ Refs(s) : a <= b

\* JSON.stringify(settings) inside saveData
Snapshot(s) ==
  [d \in Docs |->
     IF s.chatHistory[d] = 0 THEN [present |-> FALSE, log |-> <<>>]
     ELSE [present |-> TRUE, log |-> s.heap[s.chatHistory[d]]]]

\* MyPlugin.saveSettings; ok = FALSE: the write fails and saveData rejects
SaveSettings(s, ok) == IF ok THEN [s EXCEPT !.durable = Snapshot(s)] ELSE s

\* MyPlugin.getChatHistory
GetChatHistory(s, filePath) ==
  IF filePath = NoFile THEN <<>>
  ELSE IF s.chatHistory[filePath] = 0 THEN <<>>
  ELSE s.heap[s.chatHistory[filePath]]

\* a variant of setChatHistory that keeps the old in-memory history when the
\* write fails
SetChatHistoryAllOrNothing(s, arr, filePath, ok) ==
  IF filePath = NoFile THEN s
  ELSE LET s1 == [s EXCEPT !.fx.saves = Append(@, [fn |-> "setChatHistory",
                                                   path |-> filePath,
                                                   log |-> s.heap[arr]])]
       IN IF ok THEN SaveSettings([s1 EXCEPT !.chatHistory[filePath] = arr], ok)
                ELSE s1

\* MyPlugin.setChatHistory(messages, filePath): stores the array it is given
SetChatHistory(s0, arr, filePath, ok) ==
  CHOOSE r \in {(
        IF filePath = NoFile THEN s
        ELSE SaveSettings(
               [s EXCEPT !.chatHistory[filePath] = arr,
                         !.fx.saves = Append(@, [fn |-> "setChatHistory",
                                                 path |-> filePath,
                                                 log |-> s.heap[arr]])], ok)
       ) : s \in {s0}} : TRUE

\* MyPlugin.clearAllChatHistory
ClearAllChatHistory(s, ok) ==
  SaveSettings(
    [s EXCEPT !.chatHistory = [d \in Docs |-> 0],
              !.fx.saves = Append(@, [fn |-> "clearAllChatHistory",
                                      path |-> NoFile, log |-> <<>>])], ok)

\* MyPlugin.clearChatHistory(filePath?): one key is deleted, or all of them
ClearChatHistory(s, filePath, ok) ==
  SaveSettings(
    [s EXCEPT !.chatHistory = IF filePath = NoFile THEN [d \in Docs |-> 0]
                              ELSE [@ EXCEPT ![filePath] = 0],
              !.fx.saves = Append(@, [fn |-> "clearChatHistory",
                                      path |-> filePath, log |-> <<>>])], ok)

\* MyPlugin.setSummaryHistory(summaries, filePath): settings.summaryHistory is
\* not part of this state; the write of the whole settings object is
SetSummaryHistory(s, filePath, ok) ==
  IF filePath = NoFile THEN s
  ELSE SaveSettings(
         [s EXCEPT !.fx.saves = Append(@, [fn |-> "setSummaryHistory",
                                           path |-> filePath, log |-> <<>>])], ok)

\* MyPlugin.clearSummaryHistory(filePath?)
ClearSummaryHistory(s, filePath, ok) ==
  SaveSettings(
    [s EXCEPT !.fx.saves = Append(@, [fn |-> "clearSummaryHistory",
                                      path |-> filePath, log |-> <<>>])], ok)

\* ------------------------------------------------------------------ chat view helpers
\* a variant of push that puts the entry at the front (unshift)
PushMsgUnshift(s, e) == [s EXCEPT !.heap[s.messages] = <<e>> \o @]

\* this.messages.push(e)
PushMsg(s, e) == [s EXCEPT !.heap[s.messages] = Append(@, e)]

\* OllamaChatView.setSendingState
SetSendingState(s, sending) == [s EXCEPT !.isSending = sending]

\* OllamaChatView.updateResetButtonVisibility
UpdateResetButtonVisibility(s0) ==
  CHOOSE r \in {(
        [s EXCEPT !.resetVisible = (s.cur # NoFile /\ Len(MsgLog(s)) > 0)]
       ) : s \in {s0}} : TRUE

\* this.currentAbortController?.abort()
AbortCurrent(s) ==
  IF s.cac = 0 THEN s ELSE [s EXCEPT !.tasks[s.cac].aborted = TRUE]

\* this.messages = <a new array holding `contents`>
NewMessages(s, contents) ==
  LET id == FreshId(s) IN [s EXCEPT !.heap[id] = contents, !.messages = id]

\* ------------------------------------------------------------------ rendering
\* an element that messagesEl.empty() has removed from the document
Detached == -1

\* Math.min, Math.max
Min(a, b) == IF a <= b THEN a ELSE b
Max(a, b) == IF a >= b THEN a ELSE b

\* chatView.ts 177: where renderMessages puts the recommendations panel: after
\* that many bubbles
PanelPosition(s) == Min(Max(s.anchor, 0), Len(MsgLog(s)))

\* MarkdownRenderer.render(app, markdown, el, ...) of the host: what it renders
\* is appended to el, during the call or, with a host that lags, later
HostRender(s, el, markdown) ==
  IF s.lag THEN [s EXCEPT !.renders = Append(@, [el |-> el, markdown |-> markdown])]
  ELSE [s EXCEPT !.screen[el] = @ \o markdown]

\* a call of MarkdownRenderer.render completes
RenderCompleted(s, k) ==
  [s EXCEPT !.screen[s.renders[k].el] = @ \o s.renders[k].markdown,
            !.renders = SubSeq(@, 1, k - 1) \o SubSeq(@, k + 1, Len(@))]

\* chatView.ts 382-391, up to the await: the element is emptied if `replace`,
\* and the host is asked to render into it.  A render into an element that is
\* no longer on display is not seen.
RenderMarkdownTo(s0, targetEl, markdown, replace) ==
  CHOOSE r \in {(
         IF targetEl <= 0 THEN s
         ELSE HostRender(IF replace THEN [s EXCEPT !.screen[targetEl] = <<>>] ELSE s,
                         targetEl, markdown)
       ) : s \in {s0}} : TRUE

\* chatView.ts 181-203: renderList, from entry i on.  A request's bubble gets
\* its text at once, a response's is filled by renderMarkdownTo.
RECURSIVE RenderList(_, _)
RenderList(s0, i) ==
  CHOOSE r \in {(
         IF i > Len(MsgLog(s)) THEN s
         ELSE LET msg == MsgLog(s)[i]
              IN IF msg.type = "request"
                   THEN RenderList([s EXCEPT !.screen = Append(@, msg.content)], i + 1)
                   ELSE RenderList(
                          RenderMarkdownTo([s EXCEPT !.screen = Append(@, <<>>)],
                                           i, msg.content, FALSE), i + 1)
       ) : s \in {s0}} : TRUE

\* chatView.ts 168-213: messagesEl.empty(), then one bubble per entry of
\* this.messages, in order.  The bubbles that were on display are removed: a
\* reference to one of them now names an element that is not displayed, and
\* what is still to be rendered into one of them is not seen.
RenderMessages(s0) ==
  CHOOSE r \in {(
         RenderList([s EXCEPT !.screen = <<>>,
                              !.renders = <<>>,
                              !.el = IF @ = 0 THEN 0 ELSE Detached], 1)
       ) : s \in {s0}} : TRUE

\* the accumulated text of the response turn t writes to
ResponseContent(s, t) == s.heap[s.tasks[t].arr][s.tasks[t].idx].content

\* chatView.ts 333-345: the render after a chunk; due = more than 50 ms have
\* passed since the last one.  An empty chunk reaches no render (331).
ThrottledRender(s0, t, delta, due) ==
  CHOOSE r \in {(
         IF delta = <<>> \/ ~due THEN s
         ELSE IF s.el # 0 THEN RenderMarkdownTo(s, s.el, ResponseContent(s, t), TRUE)
         ELSE RenderMessages(s)
       ) : s \in {s0}} : TRUE

\* chatView.ts 350-355: the render after the loop
FinalRender(s0, t) ==
  CHOOSE r \in {(
         IF s.el # 0 THEN RenderMarkdownTo(s, s.el, ResponseContent(s, t), TRUE)
         ELSE s
       ) : s \in {s0}} : TRUE

\* ------------------------------------------------------------------ generateAssistantResponse
\* chatView.ts 282-287
SystemPrompt ==
  [role |-> "system",
   content |-> <<"You are an expert article analyst. Given an article, you analyze its structure, key arguments, evidence, tone, and audience; identify gaps, contradictions, and assumptions; propose fresh perspectives and reframings; suggest improvements; and produce helpful artifacts (outline, abstract, title options, tags, key takeaways, questions, and next steps). Prefer concise, well-structured responses.">>]

\* what vault.read returns for a file
FileContents(path) == IF path = DocSeq[1] THEN <<"A">> ELSE <<"B">>

\* the three grave accents that open and close a code block in Markdown
\* (the character cannot be written in a string here)
Fence == "<3 grave accents>"

\* chatView.ts 293-306: the lines joined with a line feed
FileAsUser(path, fileContents) ==
  [role |-> "user",
   content |-> <<"<current_file>", "\n", "<name>", path, "</name>", "\n",
                 "<content>", "\n", Fence, "markdown", "\n">>
               \o fileContents
               \o <<"\n", Fence, "\n", "</content>", "\n", "</current_file>">>]

\* chatView.ts 274-278: map
ToChatMessage(m) ==
  IF m.type = "request" THEN [role |-> "user", content |-> m.content]
  ELSE [role |-> "assistant", content |-> m.content]

\* a variant of FullHistory without the filter
FullHistoryKeepsPlaceholder(log) == [i \in 1..Len(log) |-> ToChatMessage(log[i])]

\* chatView.ts 271-278: filter, then map
FullHistory(log) ==
  LET keep == SelectSeq([i \in 1..Len(log) |-> [m |-> log[i], idx |-> i]],
                        LAMBDA x : ~(x.m.type = "response" /\ x.m.content = <<>>
                                      /\ x.idx = Len(log)))
  IN [i \in 1..Len(keep) |-> ToChatMessage(keep[i].m)]

\* chatView.ts 313-327: messagesToSend, new AbortController, then await
\* completions.create; read is "none" (no active file), "ok" or "failed"
IssueRequest(s0, t, read) ==
  CHOOSE r \in {(
        LET task == s.tasks[t]
            context == IF read = "ok"
                         THEN <<FileAsUser(task.file, FileContents(task.file))>>
                         ELSE <<>>
            messagesToSend == <<SystemPrompt>> \o context \o task.hist
        IN [Did(s, t, "request") EXCEPT
                     !.cac = t,
                     !.tasks[t].aborted = FALSE,
                     !.tasks[t].pc = "request",
                     !.tasks[t].hist = <<>>,
                     !.tasks[t].file = NoFile,
                     !.tasks[t].log0 = <<>>,
                     !.fx.requests = Append(@, [messages |-> messagesToSend,
                                                file |-> task.file,
                                                read |-> read,
                                                log |-> task.log0])]
       ) : s \in {s0}} : TRUE

\* `const client = getOllamaClient(options)` in a handler
CallGetOllamaClient(s, options) ==
  LET handle == GetOllamaClient(s.client, options)
  IN [s EXCEPT !.client = handle,
               !.fx.clients = Append(@, [options |-> options, handle |-> handle])]

NoOptions == [baseURL |-> Undefined, apiKey |-> Undefined]

\* chatView.ts 263-269: messagesEl.lastElementChild is the bubble of the entry
\* pushed last
CaptureResponseBubble(s) == [s EXCEPT !.el = Len(s.screen)]

\* chatView.ts 255-292: up to the first await of generateAssistantResponse.
\* responseMsg is the entry at (arr, idx) of the array that is this.messages NOW.
GenerateAssistantResponse(s0, t) ==
  CHOOSE r \in {(
        LET s1 == CallGetOllamaClient(Did(SetSendingState(s, TRUE), t, "sending"),
                                      NoOptions)
            s2 == CaptureResponseBubble(RenderMessages(PushMsg(s1, Placeholder(t))))
            s3 == [s2 EXCEPT !.tasks[t].arr = s2.messages,
                             !.tasks[t].idx = Len(MsgLog(s2)),
                             !.tasks[t].deltas = <<>>,
                             !.tasks[t].hist = FullHistory(MsgLog(s2)),
                             !.tasks[t].file = s2.active,
                             !.tasks[t].log0 = MsgLog(s2)]
        IN IF s3.active # NoFile
             THEN [s3 EXCEPT !.tasks[t].pc = "read"]     \* await vault.read(activeFile)
             ELSE IssueRequest(s3, t, "none")
       ) : s \in {s0}} : TRUE

\* a variant of the finally block that leaves the view in the sending state
FinallyKeepsSending(s, t) ==
  [s EXCEPT !.cac = 0,
            !.el = 0,
            !.tasks[t].pc = "done",
            !.tasks[t].arr = 0,
            !.tasks[t].idx = 0,
            !.tasks[t].deltas = <<>>,
            !.tasks[t].aborted = FALSE,
            !.tasks[t].hist = <<>>,
            !.tasks[t].file = NoFile,
            !.tasks[t].log0 = <<>>,
            !.tasks[t].moved = <<>>]

\* chatView.ts 374-379, the finally block; the task then holds no reference
Finally(s, t) ==
  [s EXCEPT !.isSending = FALSE,
            !.cac = 0,
            !.el = 0,
            !.tasks[t].pc = "done",
            !.tasks[t].arr = 0,
            !.tasks[t].idx = 0,
            !.tasks[t].deltas = <<>>,
            !.tasks[t].aborted = FALSE,
            !.tasks[t].hist = <<>>,
            !.tasks[t].file = NoFile,
            !.tasks[t].log0 = <<>>,
            !.tasks[t].moved = <<>>]

\* chatView.ts 366-379: the catch block, then the finally block
Catch(s0, t, error) ==
  CHOOSE r \in {(
        LET s1 == [s EXCEPT !.fx.caught =
                              Append(@, [name |-> error.name, message |-> error.message,
                                         cancelled |-> s.tasks[t].aborted])]
            s2 == IF WasAborted(error) THEN s1
                  ELSE [s1 EXCEPT !.fx.notices = Append(@, ChatFailedNotice)]
        IN Finally(s2, t)
       ) : s \in {s0}} : TRUE

\* a variant of ApplyDelta that assigns the chunk instead of appending it
ApplyDeltaOverwrite(s, t, delta) ==
  LET a == s.tasks[t].arr
      i == s.tasks[t].idx
      s1 == [s EXCEPT !.tasks[t].deltas = Append(@, delta)]
  IN IF delta = <<>> THEN s1
     ELSE [s1 EXCEPT !.heap[a][i].content = delta]

\* chatView.ts 330-332: one chunk of the stream
ApplyDelta(s0, t, delta) ==
  CHOOSE r \in {(
        LET a == s.tasks[t].arr
            i == s.tasks[t].idx
            s1 == [s EXCEPT !.tasks[t].deltas = Append(@, delta)]
        IN IF delta = <<>> THEN s1        \* if (!delta) continue;
           ELSE [s1 EXCEPT !.heap[a][i].content = @ \o delta]
       ) : s \in {s0}} : TRUE

\* chatView.ts 347-365: the loop has ended; persist when a file is current
StreamFinished(s0, t, ok) ==
  CHOOSE r \in {(
        LET rendered == FinalRender(s, t)
        IN IF rendered.cur # NoFile
             THEN [SetChatHistory(rendered, rendered.messages, rendered.cur, ok)
                     EXCEPT !.tasks[t].pc = "persist2"]
             ELSE Finally(UpdateResetButtonVisibility(rendered), t)
       ) : s \in {s0}} : TRUE

\* chatView.ts 365, 374-379: after the awaited setChatHistory
AfterFinalPersist(s, t) == Finally(UpdateResetButtonVisibility(s), t)

\* ------------------------------------------------------------------ sendMessage
\* variants of the early return: one that does not look at isSending, one that
\* does not trim
SendRejectedIgnoresSending(s, text) == Trim(text) = <<>>

SendRejectedNoTrim(s, text) == text = <<>> \/ s.isSending

\* chatView.ts 228: the early return
SendRejected(s, text) == Trim(text) = <<>> \/ s.isSending

\* chatView.ts 239-251: after the awaited setChatHistory (or without it)
AfterRequestPersist(s0, t) ==
  CHOOSE r \in {(
        GenerateAssistantResponse(UpdateResetButtonVisibility(RenderMessages(s)), t)
       ) : s \in {s0}} : TRUE

\* a variant of sendMessage that stores the input as typed
SendMessageUntrimmed(s, text, t, ok) ==
  IF SendRejected(s, text) THEN s
  ELSE
    LET s1 == Did(PushMsg(s, RequestEntry(text, t)), t, "append")
        s2 == [s1 EXCEPT !.tasks[t].doc = s.cur]
    IN IF s2.cur # NoFile
         THEN [Did(SetChatHistory(s2, s2.messages, s2.cur, ok), t, "persist")
                 EXCEPT !.tasks[t].pc = "persist"]
         ELSE AfterRequestPersist(s2, t)

\* a variant of sendMessage that enters the sending state before it persists
SendMessageSendingFirst(s, text, t, ok) ==
  IF SendRejected(s, text) THEN s
  ELSE
    LET s1 == Did(PushMsg(s, RequestEntry(Trim(text), t)), t, "append")
        s2 == [s1 EXCEPT !.tasks[t].doc = s.cur]
        s3 == Did(SetSendingState(s2, TRUE), t, "sending")
    IN IF s3.cur # NoFile
         THEN [Did(SetChatHistory(s3, s3.messages, s3.cur, ok), t, "persist")
                 EXCEPT !.tasks[t].pc = "persist"]
         ELSE AfterRequestPersist(s3, t)

\* chatView.ts 226-252 up to the first await; t is the turn this call becomes
SendMessage(s, text, t, ok) ==
  IF SendRejected(s, text) THEN s
  ELSE
    LET s1 == Did(PushMsg(s, RequestEntry(Trim(text), t)), t, "append")
        s2 == [s1 EXCEPT !.tasks[t].doc = s.cur]
    IN IF s2.cur # NoFile
         THEN [Did(SetChatHistory(s2, s2.messages, s2.cur, ok), t, "persist")
                 EXCEPT !.tasks[t].pc = "persist"]
         ELSE AfterRequestPersist(s2, t)

\* ------------------------------------------------------------------ reset, clear all
\* variants of resetConversation: one that aborts and persists but keeps the
\* in-memory log, one that does not store the empty log
ResetConversationKeepsLog(s, ok) ==
  LET s1 == [SetSendingState(AbortCurrent(s), FALSE) EXCEPT !.el = 0]
      s3 == UpdateResetButtonVisibility(RenderMessages([s1 EXCEPT !.anchor = 0]))
      id == FreshId(s3)
  IN IF s3.cur # NoFile
       THEN SetChatHistory([s3 EXCEPT !.heap[id] = <<>>], id, s3.cur, ok)
       ELSE s3

\* a variant of resetConversation that empties the stored history of every
\* document
ResetConversationAllDocuments(s, ok) ==
  LET s1 == [SetSendingState(AbortCurrent(s), FALSE) EXCEPT !.el = 0]
      s2 == RenderMessages([NewMessages(s1, <<>>) EXCEPT !.anchor = 0])
      s3 == UpdateResetButtonVisibility(s2)
  IN IF s3.cur # NoFile THEN ClearAllChatHistory(s3, ok) ELSE s3

ResetConversationNoPersist(s, ok) ==
  LET s1 == [SetSendingState(AbortCurrent(s), FALSE) EXCEPT !.el = 0]
      s2 == RenderMessages([NewMessages(s1, <<>>) EXCEPT !.anchor = 0])
  IN UpdateResetButtonVisibility(s2)

\* chatView.ts 465-486
ResetConversation(s, ok) ==
  LET s1 == [SetSendingState(AbortCurrent(s), FALSE) EXCEPT !.el = 0]
      s2 == RenderMessages([NewMessages(s1, <<>>) EXCEPT !.anchor = 0])
      s3 == UpdateResetButtonVisibility(s2)
      id == FreshId(s3)
  IN IF s3.cur # NoFile
       THEN SetChatHistory([s3 EXCEPT !.heap[id] = <<>>], id, s3.cur, ok)
       ELSE s3

\* chatView.ts 488-501: up to the awaited clearAllChatHistory
ClearAllHistory(s, ok) ==
  LET s1 == [SetSendingState(AbortCurrent(s), FALSE) EXCEPT !.el = 0]
  IN [ClearAllChatHistory(s1, ok) EXCEPT !.clearPending = @ + 1]

\* chatView.ts 502-511: after the await
AfterClearAll(s, ok) ==
  LET n == IF ok THEN "All chat history cleared"
           ELSE "Failed to clear all chat history"
      s0 == [s EXCEPT !.fx.notices = Append(@, n)]
      s1 == [NewMessages(s0, <<>>) EXCEPT !.anchor = 0, !.clearPending = @ - 1]
  IN UpdateResetButtonVisibility(RenderMessages(s1))

\* ------------------------------------------------------------------ document change
\* a variant of loadConversationHistory that leaves the anchor where it was
LoadConversationHistoryKeepsAnchor(s) ==
  LET persisted == GetChatHistory(s, s.cur)
      s1 == NewMessages(s, persisted)
  IN UpdateResetButtonVisibility(RenderMessages(s1))

\* chatView.ts 616-638
LoadConversationHistory(s) ==
  LET persisted == GetChatHistory(s, s.cur)
      s1 == NewMessages(s, persisted)      \* persisted.map(m => ({...m})), or []
      s2 == [s1 EXCEPT !.anchor = Len(MsgLog(s1))]
  IN UpdateResetButtonVisibility(RenderMessages(s2))

\* ------------------------------------------------------------------ recommendations panel
\* the built-in questions (each a text, written as its characters)
FallbackQuestions ==
  <<<<"Q", "1", "?">>, <<"Q", "2", "?">>, <<"Q", "3", "?">>, <<"Q", "4", "?">>,
    <<"Q", "5", "?">>>>

\* the double quote
Quote == "\""

\* the first position from i on that holds no white space (Len + 1 if none)
RECURSIVE SkipWhite(_, _)
SkipWhite(p, i) ==
  IF i <= Len(p) /\ IsWhite(p[i]) THEN SkipWhite(p, i + 1) ELSE i

\* the position of the next double quote from i on (0 if none)
RECURSIVE ClosingQuote(_, _)
ClosingQuote(p, i) ==
  IF i > Len(p) THEN 0
  ELSE IF p[i] = Quote THEN i ELSE ClosingQuote(p, i + 1)

NotAList == [ok |-> FALSE, items |-> <<>>]

\* after the closing bracket only white space may follow
ListEnd(p, k, items) ==
  IF SkipWhite(p, k) > Len(p) THEN [ok |-> TRUE, items |-> items] ELSE NotAList

\* the items of a list from position j on: "text" , "text" ... ]
RECURSIVE ListItems(_, _, _)
ListItems(p, j, items) ==
  IF j > Len(p) \/ p[j] # Quote THEN NotAList
  ELSE LET c == ClosingQuote(p, j + 1)
       IN IF c = 0 THEN NotAList
          ELSE LET more == Append(items, SubSeq(p, j + 1, c - 1))
                   k == SkipWhite(p, c + 1)
               IN IF k > Len(p) THEN NotAList
                  ELSE IF p[k] = "," THEN ListItems(p, SkipWhite(p, k + 1), more)
                  ELSE IF p[k] = "]" THEN ListEnd(p, k + 1, more)
                  ELSE NotAList

\* structured-list parsing: the payload is a list of texts, [ "..." , ... ]
ParseStructured(p) ==
  LET i == SkipWhite(p, 1)
  IN IF i > Len(p) \/ p[i] # "[" THEN NotAList
     ELSE LET j == SkipWhite(p, i + 1)
          IN IF j <= Len(p) /\ p[j] = "]" THEN ListEnd(p, j + 1, <<>>)
             ELSE ListItems(p, j, <<>>)

\* the lines of a payload
RECURSIVE SplitLines(_, _)
SplitLines(p, line) ==
  IF p = <<>> THEN <<line>>
  ELSE IF Head(p) = "\n" THEN <<line>> \o SplitLines(Tail(p), <<>>)
  ELSE SplitLines(Tail(p), Append(line, Head(p)))

ListMarkers == {"-", "*"}

\* the text of a line that starts with a list marker (empty if it does not)
MarkedItem(line) ==
  LET l == Trim(line)
  IN IF l # <<>> /\ Head(l) \in ListMarkers THEN Trim(Tail(l)) ELSE <<>>

RECURSIVE NonEmpty(_)
NonEmpty(items) ==
  IF items = <<>> THEN <<>>
  ELSE (IF Trim(Head(items)) = <<>> THEN <<>> ELSE <<Trim(Head(items))>>)
         \o NonEmpty(Tail(items))

\* scanning for line-prefixed list markers
ParseLines(p) ==
  LET lines == SplitLines(p, <<>>)
  IN NonEmpty([i \in 1..Len(lines) |-> MarkedItem(lines[i])])

\* a variant of the parser without the built-in questions
ParseSuggestionsNoFallback(payload) ==
  LET list == ParseStructured(payload)
  IN IF list.ok /\ NonEmpty(list.items) # <<>> THEN NonEmpty(list.items)
     ELSE ParseLines(payload)

\* the lenient parser: structured list first, then marked lines, then the
\* built-in questions
ParseSuggestions(payload) ==
  LET list == ParseStructured(payload)
  IN IF list.ok /\ NonEmpty(list.items) # <<>> THEN NonEmpty(list.items)
     ELSE IF ParseLines(payload) # <<>> THEN ParseLines(payload)
     ELSE FallbackQuestions

\* payloads: every text of up to MaxPayload characters, and some longer ones
PayloadChars == {"[", "]", Quote, ",", "-", "\n", "a"}

SamplePayloads ==
  {<<"[", Quote, "A", "?", Quote, ",", Quote, "B", "?", Quote, ",",
     Quote, "C", "?", Quote, ",", Quote, "D", "?", Quote, ",",
     Quote, "E", "?", Quote, "]">>,
   <<"[", Quote, "a", Quote, "]">>,
   <<"[", Quote, "a", Quote, ",", "]">>,
   <<"[", Quote, "a", Quote, "]", "a">>,
   <<"-", " ", "a", "\n", "*", " ", "b", "\n", "c">>,
   <<"S", "o", "r", "r", "y", ".">>}

Payloads ==
  SamplePayloads \cup UNION {[1..n -> PayloadChars] : n \in 0..MaxPayload}

\* the payloads tried where the parser is not the subject
RecPayloads == {<<"[", Quote, "a", Quote, "]">>, <<"S", "o", "r", "r", "y", ".">>}

\* (recommendations.ts; written from the contract of refresh)
\* the panel after mount: nothing cached, nothing in flight
NoSuggestions ==
  [has |-> FALSE, doc |-> NoFile, set |-> <<>>, status |-> "idle",
   fetches |-> <<>>]

\* a refresh that is not forced finds the set of this document in the cache
Memoized(p, documentId, force) == ~force /\ p.has /\ p.doc = documentId

\* cancel any request in flight
CancelFetches(fetches) ==
  [i \in 1..Len(fetches) |-> [fetches[i] EXCEPT !.aborted = TRUE]]

\* a variant of refresh that leaves the requests in flight running
RefreshedNoCancel(p, documentId, force) ==
  IF Memoized(p, documentId, force) THEN p
  ELSE [p EXCEPT !.status = "loading",
                 !.fetches = Append(@, [doc |-> documentId, aborted |-> FALSE])]

\* a variant of refresh that does not look at the cache
RefreshedNoMemo(p, documentId, force) ==
  [p EXCEPT !.status = "loading",
            !.fetches = Append(CancelFetches(@),
                               [doc |-> documentId, aborted |-> FALSE])]

\* refresh(documentId, text, force) up to the request: the panel it leaves
Refreshed(p, documentId, force) ==
  IF Memoized(p, documentId, force) THEN p
  ELSE [p EXCEPT !.status = "loading",
                 !.fetches = Append(CancelFetches(@),
                                    [doc |-> documentId, aborted |-> FALSE])]

\* refresh(documentId, text, force) in a handler: a request is issued unless
\* the call is answered from the cache
PanelRefresh(s, documentId, force) ==
  LET next == Refreshed(s.panel, documentId, force)
  IN IF next.fetches = s.panel.fetches
       THEN [s EXCEPT !.panel = next,
                      !.fx.suggested = Append(@, s.panel.set)]
       ELSE [s EXCEPT !.panel = next,
                      !.fx.recRequests = Append(@, [doc |-> documentId])]

RemoveAt(q, i) == SubSeq(q, 1, i - 1) \o SubSeq(q, i + 1, Len(q))

\* request i settles.  A cancelled request leaves the panel as it is (its
\* result is dropped and its rejection is not an error); otherwise the set
\* becomes the document's cached set, or the panel enters the error state.
FetchSettled(s, i, failed, payload) ==
  LET f == s.panel.fetches[i]
      s1 == [s EXCEPT !.panel.fetches = RemoveAt(@, i),
                      !.fx.settled = Append(@, [doc |-> f.doc,
                                                aborted |-> f.aborted,
                                                failed |-> failed,
                                                payload |-> payload])]
  IN IF f.aborted THEN s1
     ELSE IF failed THEN [s1 EXCEPT !.panel.status = "error"]
     ELSE [s1 EXCEPT !.panel.has = TRUE, !.panel.doc = f.doc,
                     !.panel.set = ParseSuggestions(payload),
                     !.panel.status = "ready"]

\* `void this.recommendationsPanel.refresh()`: the panel refreshes for the
\* active file, not forced
RefreshPanel(s) ==
  PanelRefresh([s EXCEPT !.fx.refreshes = Append(@, [enabled |-> s.enabled])],
               s.active, FALSE)

\* recommendationsPanel.clearRecommendations() (main.ts 343-344).  The call is
\* what the source shows (counted in fx.cleared); the method's body is in
\* recommendations.ts, so the effect on the panel is read off the call site's
\* comment, "clear and hide recommendations": the panel shows no set and holds
\* none, and its requests in flight are left to settle
ClearRecommendations(s) ==
  [s EXCEPT !.panel = [NoSuggestions EXCEPT !.fetches = s.panel.fetches],
            !.fx.cleared = @ + 1]

\* chatView.ts 596-604: the refresh is put on a 100 ms timer if the view has its
\* panel and the setting is on
ScheduleRefresh(s) ==
  IF s.open /\ s.enabled THEN [s EXCEPT !.timers = @ + 1] ELSE s

\* chatView.ts 599-603: the timer's callback, which does nothing once onClose
\* has dropped the panel
TimerCallback(s) ==
  LET s1 == [s EXCEPT !.timers = @ - 1]
  IN IF s.open THEN RefreshPanel(s1) ELSE s1

\* chatView.ts 149-156: the panel is destroyed and dropped, the two workspace
\* listeners are removed (what destroy() does to the panel object, which
\* nothing refers to afterwards, is left open: its requests still settle)
OnClose(s) == [s EXCEPT !.open = FALSE]

\* a variant of onActiveFileChanged that does not store the outgoing log
OnActiveFileChangedNoSave(s, ok) ==
  IF s.cur = s.active THEN s
  ELSE ScheduleRefresh(UpdateResetButtonVisibility(
         LoadConversationHistory([s EXCEPT !.cur = s.active])))

\* a variant of onActiveFileChanged that does not compare the paths
OnActiveFileChangedAlways(s, ok) ==
  LET s1 == IF s.cur # NoFile /\ Len(MsgLog(s)) > 0
              THEN SetChatHistory(s, s.messages, s.cur, ok)
              ELSE s
      s2 == [s1 EXCEPT !.cur = s.active]
  IN ScheduleRefresh(UpdateResetButtonVisibility(LoadConversationHistory(s2)))

\* chatView.ts 572-614; s.active is what getActiveFile() returns
OnActiveFileChanged(s, ok) ==
  IF s.cur = s.active THEN s
  ELSE
    LET s1 == IF s.cur # NoFile /\ Len(MsgLog(s)) > 0
                THEN SetChatHistory(s, s.messages, s.cur, ok)
                ELSE s
        s2 == [s1 EXCEPT !.cur = s.active]
    IN ScheduleRefresh(UpdateResetButtonVisibility(LoadConversationHistory(s2)))

\* `await this.plugin.saveSettings()` in a handler of the settings tab
SaveTabSettings(s, ok) ==
  SaveSettings([s EXCEPT !.fx.saves = Append(@, [fn |-> "saveSettings",
                                                 path |-> NoFile,
                                                 log |-> <<>>])], ok)

\* main.ts 330-332: the toggle's onChange(value) up to `await saveSettings()`;
\* if the save fails the handler ends there
ToggleChanged(s, value, ok) ==
  LET s1 == SaveTabSettings([s EXCEPT !.enabled = value], ok)
  IN IF ok THEN [s1 EXCEPT !.toggles = Append(@, value)] ELSE s1

\* main.ts 334-347: the rest of the i-th waiting onChange call, for the one
\* chat view, if it still has its panel
AfterToggleSave(s, i) ==
  LET value == s.toggles[i]
      s1 == [s EXCEPT !.toggles = RemoveAt(@, i)]
  IN IF ~s.open THEN s1
     ELSE IF value THEN RefreshPanel(s1) ELSE ClearRecommendations(s1)

\* ------------------------------------------------------------------ settings tab
\* the tab before display() has run
TabClosed ==
  [shown |-> FALSE, options |-> <<>>, disabled |-> TRUE, value |-> "",
   btnDisabled |-> FALSE, fetching |-> <<>>, saving |-> 0]

\* what models.list() may settle with: a rejection, or a list of ids (an id
\* may be missing or empty)
ModelIds == {"m1", "m2", ""}

ListOutcomes ==
  {[failed |-> TRUE, data |-> <<>>]}
    \cup {[failed |-> FALSE, data |-> d] :
            d \in UNION {[1..n -> ModelIds] : n \in 0..MaxModels}}

\* .filter(Boolean)
RECURSIVE FilterBoolean(_)
FilterBoolean(q) ==
  IF q = <<>> THEN <<>>
  ELSE (IF Head(q) = "" THEN <<>> ELSE <<Head(q)>>) \o FilterBoolean(Tail(q))

Includes(q, x) == \E i \in 1..Len(q) : q[i] = x

ListFailedNotice == "Failed to list Ollama models. Is Ollama running?"

\* a variant of fetchOllamaModels that returns the empty list without a Notice
FetchOllamaModelsNoNotice(outcome) ==
  [failed |-> outcome.failed,
   models |-> IF outcome.failed THEN <<>> ELSE FilterBoolean(outcome.data),
   notices |-> <<>>,
   thrown |-> FALSE]

\* main.ts 259-269, after `await client.models.list()` has settled
FetchOllamaModels(outcome) ==
  IF outcome.failed
    THEN [failed |-> TRUE, models |-> <<>>, notices |-> <<ListFailedNotice>>,
          thrown |-> FALSE]
    ELSE [failed |-> FALSE, models |-> FilterBoolean(outcome.data),
          notices |-> <<>>, thrown |-> FALSE]

\* the result of fetchOllamaModels arrives in the handler that awaits it, the
\* i-th of those that wait
Listed(s, r, i) ==
  [s EXCEPT !.fx.listings = Append(@, [failed |-> r.failed, models |-> r.models,
                                       thrown |-> r.thrown]),
            !.fx.notices = @ \o r.notices,
            !.tab.fetching = RemoveAt(@, i)]

\* a variant of the selection that always takes the first model listed
SelectedFirst(s, models) == models[1]

\* main.ts 312-314, 365-367: the stored default if it is listed, else the first
Selected(s, models) ==
  IF Includes(models, s.defaultModel) THEN s.defaultModel ELSE models[1]

\* main.ts 274-300: display() up to the await of fetchOllamaModels, whose
\* first statement is getOllamaClient()
Display(s) ==
  [CallGetOllamaClient(s, NoOptions) EXCEPT
     !.tab = [shown |-> TRUE, options |-> <<"">>, disabled |-> TRUE, value |-> "",
              btnDisabled |-> FALSE, fetching |-> <<"display">>, saving |-> 0]]

\* main.ts 301-323: display()'s loader after the list has arrived
DisplayLoaded(s, i, outcome, ok) ==
  LET r == FetchOllamaModels(outcome)
      s1 == Listed(s, r, i)
  IN IF r.thrown THEN s1
     ELSE IF r.models = <<>>
       THEN [s1 EXCEPT !.tab.options = <<"">>, !.tab.disabled = TRUE,
                       !.tab.value = ""]
       ELSE LET selected == Selected(s1, r.models)
                s2 == [s1 EXCEPT !.tab.options = r.models,
                                 !.tab.disabled = FALSE,
                                 !.tab.value = selected]
            IN IF s2.defaultModel # selected
                 THEN SaveTabSettings([s2 EXCEPT !.defaultModel = selected], ok)
                 ELSE s2

\* main.ts 355-357: click on Refresh, up to the await of fetchOllamaModels
RefreshClicked(s) ==
  [CallGetOllamaClient(s, NoOptions) EXCEPT
     !.tab.btnDisabled = TRUE,
     !.tab.fetching = Append(@, "refresh")]

\* main.ts 358-372: the Refresh handler after the list has arrived; with
\* models it waits for saveSettings before it enables the button again
RefreshLoaded(s, i, outcome, ok) ==
  LET r == FetchOllamaModels(outcome)
      s1 == Listed(s, r, i)
  IN IF r.thrown THEN s1
     ELSE IF r.models = <<>>
       THEN [s1 EXCEPT !.tab.options = <<"">>, !.tab.disabled = TRUE,
                       !.tab.value = "", !.tab.btnDisabled = FALSE]
       ELSE LET selected == Selected(s1, r.models)
                s2 == [s1 EXCEPT !.tab.options = r.models,
                                 !.tab.disabled = FALSE,
                                 !.tab.value = selected,
                                 !.tab.saving = @ + 1,
                                 !.defaultModel = selected]
            IN SaveTabSettings(s2, ok)

\* main.ts 372: after the awaited saveSettings (a rejected save ends the
\* handler before it enables the button)
RefreshSaved(s, ok) ==
  IF ok THEN [s EXCEPT !.tab.saving = @ - 1, !.tab.btnDisabled = FALSE]
        ELSE [s EXCEPT !.tab.saving = @ - 1]

\* main.ts 296-299: the dropdown's onChange
DropdownChanged(s, value, ok) ==
  SaveTabSettings([s EXCEPT !.tab.value = value, !.defaultModel = value], ok)

\* ------------------------------------------------------------------ heap normal form
\* Array ids carry no meaning: after every action the arrays are renumbered in
\* the order messages, chatHistory[a.md], chatHistory[b.md], tasks[1].arr, ...
\* and arrays nothing refers to are dropped (garbage collection).
RefSeq(s) ==
  <<s.messages>> \o [i \in 1..Len(DocSeq) |-> s.chatHistory[DocSeq[i]]]
                 \o [t \in 1..NTasks |-> s.tasks[t].arr]

RECURSIVE Dedup(_, _)
Dedup(q, acc) ==
  IF q = <<>> THEN acc
  ELSE LET x == Head(q)
       IN Dedup(Tail(q),
                IF x = 0 \/ \E i \in 1..Len(acc) : acc[i] = x
                  THEN acc ELSE Append(acc, x))

Rank(order, id) ==
  IF id = 0 THEN 0 ELSE CHOOSE i \in 1..Len(order) : order[i] = id

\* the state s with its arrays numbered in the order o
Renumber(s, o) ==
  [s EXCEPT
     !.heap = [a \in ArrIds |-> IF a <= Len(o) THEN s.heap[o[a]] ELSE <<>>],
     !.messages = Rank(o, s.messages),
     !.chatHistory = [d \in Docs |-> Rank(o, s.chatHistory[d])],
     !.tasks = [t \in TaskIds |-> [s.tasks[t] EXCEPT !.arr = Rank(o, @)]]]

Canon(s) == Renumber(s, Dedup(RefSeq(s), <<>>))

\* The post-state of a handler becomes the next state.  (The singleton sets
\* make each value be computed once.)
Install(s0) ==
  \E u \in {s0} : \E o \in {Dedup(RefSeq(u), <<>>)} : \E s \in {Renumber(u, o)} :
     /\ heap' = s.heap
     /\ messages' = s.messages
     /\ chatHistory' = s.chatHistory
     /\ durable' = s.durable
     /\ tasks' = s.tasks
     /\ isSending' = s.isSending
     /\ currentAbortController' = s.cac
     /\ currentFilePath' = s.cur
     /\ activeFile' = s.active
     /\ suggestionAnchorIndex' = s.anchor
     /\ resetVisible' = s.resetVisible
     /\ clearPending' = s.clearPending
     /\ effects' = s.fx
     /\ cachedClient' = s.client
     /\ enableRecommendations' = s.enabled
     /\ refreshTimers' = s.timers
     /\ togglePending' = s.toggles
     /\ defaultModel' = s.defaultModel
     /\ settingTab' = s.tab
     /\ panel' = s.panel
     /\ screen' = s.screen
     /\ pendingRenders' = s.renders
     /\ activeResponseContentEl' = s.el
     /\ viewOpen' = s.open

\* ------------------------------------------------------------------ history variables
Op(name, text) == [op |-> name, text |-> text]

RtNone == [phase |-> 0, from |-> NoFile, log |-> <<>>]

\* phase 1: the last step switched from document rt.from (whose log was rt.log)
\* to another document; phase 2: the step after that switched back to rt.from.
RtAfterFileEvent(new) ==
  IF currentFilePath \in Docs /\ new \in Docs /\ new # currentFilePath
    THEN IF rt.phase = 1 /\ rt.from = new
           THEN [rt EXCEPT !.phase = 2]
           ELSE [phase |-> 1, from |-> currentFilePath, log |-> heap[messages]]
    ELSE RtNone

\* ------------------------------------------------------------------ initial state
\* The view after construction and onOpen, with no stored history: onOpen calls
\* onActiveFileChanged once, which sets currentFilePath to the active file and
\* loads an empty log.
\* `flags`: what the loaded settings may hold for enableRecommendations.  With
\* the setting on, onOpen has called refresh() (chatView.ts 143-146) and its
\* onActiveFileChanged has put one on a timer if a file is active.
InitViewWith(files, flags, models) ==
  /\ heap = [a \in ArrIds |-> <<>>]
  /\ messages = 1
  /\ chatHistory = [d \in Docs |-> 0]
  /\ durable = [d \in Docs |-> [present |-> FALSE, log |-> <<>>]]
  /\ tasks = [t \in TaskIds |-> IdleTask]
  /\ isSending = FALSE
  /\ currentAbortController = 0
  /\ activeFile \in files
  /\ currentFilePath = activeFile
  /\ suggestionAnchorIndex = 0
  /\ resetVisible = FALSE
  /\ clearPending = 0
  /\ cancelled = {}
  /\ cachedClient = NoClient
  /\ enableRecommendations \in flags
  /\ refreshTimers = IF enableRecommendations /\ activeFile # NoFile THEN 1 ELSE 0
  /\ togglePending = <<>>
  /\ defaultModel \in models
  /\ settingTab = TabClosed
  /\ screen = <<>>
  /\ pendingRenders = <<>>
  /\ activeResponseContentEl = 0
  /\ viewOpen = TRUE
  /\ panel = IF enableRecommendations
               THEN Refreshed(NoSuggestions, activeFile, FALSE)
               ELSE NoSuggestions
  /\ effects = IF enableRecommendations
                 THEN [NoEffects EXCEPT !.refreshes = <<[enabled |-> TRUE]>>,
                                        !.recRequests = <<[doc |-> activeFile]>>]
                 ELSE NoEffects
  /\ lastOp = Op("onOpen", <<>>)
  /\ rt = RtNone

\* main.ts 157-162: enableRecommendations is false by default
InitView(files) == InitViewWith(files, {FALSE}, {DEFAULT_OLLAMA_MODEL})

Init ==
  /\ InitView({DocSeq[1], NoFile})
  /\ env \in [diskOk : BOOLEAN, deltas : {Deltas}, maxDeltas : {MaxDeltas}, lag : {FALSE}]
  /\ budget = [turns |-> MaxTurns, events |-> MaxEvents]

InitRace ==
  /\ InitView({DocSeq[1]})
  /\ env = [diskOk |-> TRUE, deltas |-> RaceDeltaSet, maxDeltas |-> RaceDeltas,
            lag |-> FALSE]
  /\ budget = [turns |-> RaceTurns, events |-> RaceEvents]

InitLive ==
  /\ InitView({DocSeq[1], NoFile})
  /\ env \in [diskOk : BOOLEAN, deltas : {Deltas}, maxDeltas : {LiveDeltas}, lag : {FALSE}]
  /\ budget = [turns |-> 1, events |-> LiveEvents]

InitRec ==
  /\ InitViewWith({DocSeq[1], NoFile}, BOOLEAN, {DEFAULT_OLLAMA_MODEL})
  /\ env \in [diskOk : BOOLEAN, deltas : {Deltas}, maxDeltas : {MaxDeltas}, lag : {FALSE}]
  /\ budget = [turns |-> 0, events |-> RecEvents]

\* the stored default model may be one the backend no longer has
InitModels ==
  /\ InitViewWith({DocSeq[1]}, {FALSE}, {DEFAULT_OLLAMA_MODEL, "m1"})
  /\ env \in [diskOk : BOOLEAN, deltas : {Deltas}, maxDeltas : {MaxDeltas}, lag : {FALSE}]
  /\ budget = [turns |-> 0, events |-> ModelEvents]

InitStream ==
  /\ InitView({DocSeq[1], NoFile})
  /\ env \in [diskOk : {TRUE}, deltas : {StreamDeltaSet}, maxDeltas : {StreamDeltas},
               lag : BOOLEAN]
  /\ budget = [turns |-> 1, events |-> 0]

InitClient ==
  /\ InitView({DocSeq[1], NoFile})
  /\ env = [diskOk |-> TRUE, deltas |-> StreamDeltaSet, maxDeltas |-> StreamDeltas,
            lag |-> FALSE]
  /\ budget = [turns |-> 1, events |-> 0]

\* ------------------------------------------------------------------ actions
\* turns are numbered in the order of their submission
FreeTurns == {t \in TaskIds : tasks[t].pc = "idle"}
NextTurn == CHOOSE t \in FreeTurns : \A u \in FreeTurns : t <= u

\* generations that have started and not reached the end of their finally block
InFlight == {t \in TaskIds : tasks[t].pc \in GenPcs}

\* history of cancellation: `more` are the generations cancelled by this step
Cancelling(more) ==
  cancelled' = {t \in cancelled \cup more : tasks'[t].pc \in GenPcs}

Async(name) ==
  /\ lastOp' = Op(name, <<>>)
  /\ rt' = RtNone
  /\ Cancelling({})
  /\ UNCHANGED <<env, budget>>

UserEvent(name) ==
  /\ budget.events > 0
  /\ budget' = [budget EXCEPT !.events = @ - 1]
  /\ lastOp' = Op(name, <<>>)
  /\ UNCHANGED env

\* Enter key, Send button or the `ask` callback: sendMessage() with
\* inputEl.value = text.  A rejected call changes nothing.
Submit(text) ==
  /\ \/ /\ SendRejected(S, text)
        /\ Install(SendMessage(S, text, 0, env.diskOk))
        /\ UNCHANGED budget
     \/ /\ ~SendRejected(S, text)
        /\ budget.turns > 0
        /\ Install(SendMessage(S, text, NextTurn, env.diskOk))
        /\ budget' = [budget EXCEPT !.turns = @ - 1]
  /\ lastOp' = Op("sendMessage", text)
  /\ rt' = RtNone
  /\ Cancelling({})
  /\ UNCHANGED env

\* sendMessage resumes after `await setChatHistory` (chatView.ts 234)
ResumeSend(t) ==
  /\ tasks[t].pc = "persist"
  /\ Install(AfterRequestPersist(S, t))
  /\ Async("resumeSend")

\* vault.read settles (a rejection is swallowed, chatView.ts 309)
ReadDone(t, ok) ==
  /\ tasks[t].pc = "read"
  /\ Install(IssueRequest(S, t, IF ok THEN "ok" ELSE "failed"))
  /\ Async("readDone")

\* completions.create resolves with a stream
RequestOk(t) ==
  /\ tasks[t].pc = "request"
  /\ ~tasks[t].aborted
  /\ Install([S EXCEPT !.tasks[t].pc = "stream"])
  /\ Async("requestOk")

\* what the pending call of task t can throw
ErrorsOf(t) == IF tasks[t].aborted THEN AbortErrors ELSE BackendErrors

\* completions.create rejects: backend failure, or the signal was aborted
RequestFails(t, error) ==
  /\ tasks[t].pc = "request"
  /\ Install(Catch(S, t, error))
  /\ Async("requestFails")

\* the stream yields a chunk
StreamDelta(t, delta, due) ==
  /\ tasks[t].pc = "stream"
  /\ ~tasks[t].aborted
  /\ Len(tasks[t].deltas) < env.maxDeltas
  /\ Install(ThrottledRender(ApplyDelta(S, t, delta), t, delta, due))
  /\ Async("streamDelta")

\* one of the renders the host has been asked for completes (each caller of
\* renderMarkdownTo went on without waiting for it)
RenderCompletes(k) ==
  /\ k \in 1..Len(pendingRenders)
  /\ Install(RenderCompleted(S, k))
  /\ Async("renderCompletes")

\* The for-await loop ends without throwing: the stream is exhausted, or the
\* signal was aborted and the client library ends the iteration silently.
StreamEnd(t) ==
  /\ tasks[t].pc = "stream"
  /\ Install([StreamFinished(S, t, env.diskOk) EXCEPT !.tasks[t].end =
                 [exhausted |-> ~tasks[t].aborted /\ t \notin cancelled,
                  text |-> Concat(tasks[t].deltas)]])
  /\ Async("streamEnd")

\* The for-await loop throws: a backend failure mid-stream, or an abort error
StreamThrows(t, error) ==
  /\ tasks[t].pc = "stream"
  /\ Install(Catch(S, t, error))
  /\ Async("streamThrows")

\* generateAssistantResponse resumes after `await setChatHistory` (chatView.ts 360)
ResumeGenerate(t) ==
  /\ tasks[t].pc = "persist2"
  /\ Install(AfterFinalPersist(S, t))
  /\ Async("resumeGenerate")

\* click on Reset; the button can be clicked only while it is displayed
Reset ==
  /\ resetVisible
  /\ Install(ResetConversation(S, env.diskOk))
  /\ UserEvent("resetConversation")
  /\ rt' = RtNone
  /\ Cancelling(InFlight)

\* click on Clear All History
ClearAll ==
  /\ clearPending < MaxPendingClear
  /\ Install(ClearAllHistory(S, env.diskOk))
  /\ UserEvent("clearAllHistory")
  /\ rt' = RtNone
  /\ Cancelling(InFlight)

\* clearAllHistory resumes after `await clearAllChatHistory` (chatView.ts 501)
ResumeClearAll ==
  /\ clearPending > 0
  /\ Install(AfterClearAll(S, env.diskOk))
  /\ Async("resumeClearAll")

\* history: the current document is about to change from s.cur to s.active;
\* every turn whose stream is open notes it, with the history the settings
\* hold for the new document
Moved(s) ==
  [s EXCEPT !.tasks =
     [t \in TaskIds |->
        IF s.tasks[t].pc = "stream" /\ ~s.tasks[t].aborted /\ s.cur # s.active
          THEN [s.tasks[t] EXCEPT !.moved =
                  Append(@, [from |-> s.cur, to |-> s.active,
                             held |-> GetChatHistory(s, s.active)])]
          ELSE s.tasks[t]]]

\* 'file-open': the workspace's active file becomes `new` and the listener runs
FileOpen(new) ==
  /\ viewOpen
  /\ new # activeFile
  /\ Install(OnActiveFileChanged(Moved([S EXCEPT !.active = new]), env.diskOk))
  /\ UserEvent("onActiveFileChanged")
  /\ rt' = RtAfterFileEvent(new)
  /\ Cancelling({})

\* 'active-leaf-change' with the same active file: the listener runs
ActiveLeafChange ==
  /\ viewOpen
  /\ Install(OnActiveFileChanged(S, env.diskOk))
  /\ lastOp' = Op("activeLeafChange", <<>>)
  /\ rt' = RtNone
  /\ Cancelling({})
  /\ UNCHANGED <<env, budget>>

\* The plugin's other persistence methods.  Nothing in chatView.ts or main.ts
\* calls them; whoever holds the plugin object may, at any time.
ClearChatHistoryCalled(filePath) ==
  /\ Install(ClearChatHistory(S, filePath, env.diskOk))
  /\ UserEvent("clearChatHistory")
  /\ rt' = RtNone
  /\ Cancelling({})

SetSummaryHistoryCalled(filePath) ==
  /\ Install(SetSummaryHistory(S, filePath, env.diskOk))
  /\ UserEvent("setSummaryHistory")
  /\ rt' = RtNone
  /\ Cancelling({})

ClearSummaryHistoryCalled(filePath) ==
  /\ Install(ClearSummaryHistory(S, filePath, env.diskOk))
  /\ UserEvent("clearSummaryHistory")
  /\ rt' = RtNone
  /\ Cancelling({})

TaskStep ==
  \/ \E t \in TaskIds : ResumeSend(t)
  \/ \E t \in TaskIds : \E ok \in BOOLEAN : ReadDone(t, ok)
  \/ \E t \in TaskIds : RequestOk(t)
  \/ \E t \in TaskIds : \E error \in ErrorsOf(t) : RequestFails(t, error)
  \/ \E t \in TaskIds : \E delta \in env.deltas : \E due \in BOOLEAN :
       StreamDelta(t, delta, due)
  \/ \E t \in TaskIds : StreamEnd(t)
  \/ \E t \in TaskIds : \E error \in ErrorsOf(t) : StreamThrows(t, error)
  \/ \E t \in TaskIds : ResumeGenerate(t)

Next ==
  \/ \E text \in Texts : Submit(text)
  \/ TaskStep
  \/ Reset
  \/ ClearAll
  \/ ResumeClearAll
  \/ \E new \in Paths : FileOpen(new)
  \/ ActiveLeafChange
  \/ \E filePath \in Paths : ClearChatHistoryCalled(filePath)
  \/ \E filePath \in Paths : SetSummaryHistoryCalled(filePath)
  \/ \E filePath \in Paths : ClearSummaryHistoryCalled(filePath)

Spec == Init /\ [][Next]_vars

\* two turns that may overlap, and at most RaceEvents other events
SpecRace == InitRace /\ [][Next]_vars

\* Every await settles: a pending save, file read, request or stream chunk is
\* eventually delivered to the continuation that waits for it.  User events
\* are not forced to happen.
SpecLive == InitLive /\ [][Next]_vars /\ WF_vars(TaskStep)

\* one turn, with no reset, clear-all or document change during it
NextStream ==
  \/ \E text \in Texts : Submit(text)
  \/ TaskStep
  \/ \E k \in 1..(StreamDeltas + 2) : RenderCompletes(k)

SpecStream == InitStream /\ [][NextStream]_vars

\* click on the Enable recommendations toggle of the settings tab
Toggle ==
  /\ Install(ToggleChanged(S, ~enableRecommendations, env.diskOk))
  /\ UserEvent("toggleRecommendations")
  /\ rt' = RtNone
  /\ Cancelling({})

\* one of the toggle's onChange calls resumes after its `await saveSettings()`
\* (main.ts 332); the saves settle in any order
ToggleResumes(i) ==
  /\ i \in 1..Len(togglePending)
  /\ Install(AfterToggleSave(S, i))
  /\ Async("resumeToggle")

\* the chat view is closed: onClose (chatView.ts 149-156)
Close ==
  /\ viewOpen
  /\ Install(OnClose(S))
  /\ UserEvent("onClose")
  /\ rt' = RtNone
  /\ Cancelling({})

\* the active file changes after onClose: no listener of the view runs
FileOpenUnheard(new) ==
  /\ ~viewOpen
  /\ new # activeFile
  /\ Install([S EXCEPT !.active = new])
  /\ UserEvent("(none)")
  /\ rt' = RtNone
  /\ Cancelling({})

\* a 100 ms timer of onActiveFileChanged runs out
TimerFires ==
  /\ refreshTimers > 0
  /\ Install(TimerCallback(S))
  /\ Async("refreshTimer")

\* the panel's retry: a forced refresh for the active file
Retry ==
  /\ viewOpen
  /\ Install(PanelRefresh(S, activeFile, TRUE))
  /\ UserEvent("retryRecommendations")
  /\ rt' = RtNone
  /\ Cancelling({})

\* a recommendation request settles: with a payload, or with a failure
RecommendationsArrive(i, failed, payload) ==
  /\ i \in 1..Len(panel.fetches)
  /\ Install(FetchSettled(S, i, failed, payload))
  /\ Async("recommendationsArrive")

\* document changes, the recommendations setting and the panel
NextRec ==
  \/ \E new \in Paths : FileOpen(new)
  \/ ActiveLeafChange
  \/ Toggle
  \/ \E i \in 1..(RecEvents + 1) : ToggleResumes(i)
  \/ TimerFires
  \/ Retry
  \/ Close
  \/ \E new \in Paths : FileOpenUnheard(new)
  \/ \E i \in 1..(RecEvents + 1) : \E failed \in BOOLEAN :
       \E payload \in RecPayloads : RecommendationsArrive(i, failed, payload)

SpecRec == InitRec /\ [][NextRec]_vars

\* the panel of a view opened with recommendations enabled: requests are
\* answered with any payload, and retried
InitParse ==
  /\ InitViewWith({DocSeq[1]}, {TRUE}, {DEFAULT_OLLAMA_MODEL})
  /\ env = [diskOk |-> TRUE, deltas |-> Deltas, maxDeltas |-> MaxDeltas,
            lag |-> FALSE]
  /\ budget = [turns |-> 0, events |-> ParseEvents]

NextParse ==
  \/ Retry
  \/ \E payload \in Payloads : RecommendationsArrive(1, FALSE, payload)

SpecParse == InitParse /\ [][NextParse]_vars

\* the settings tab is opened (once in a behaviour)
OpenSettings ==
  /\ ~settingTab.shown
  /\ Install(Display(S))
  /\ Async("display")

\* click on Refresh; a disabled button takes no click
RefreshModels ==
  /\ settingTab.shown
  /\ ~settingTab.btnDisabled
  /\ Install(RefreshClicked(S))
  /\ UserEvent("refreshModels")
  /\ rt' = RtNone
  /\ Cancelling({})

\* models.list() of one of the waiting handlers settles: each awaits its own
\* request, and nothing orders the responses
ModelsListed(i, outcome) ==
  /\ i \in 1..Len(settingTab.fetching)
  /\ Install(IF settingTab.fetching[i] = "display"
               THEN DisplayLoaded(S, i, outcome, env.diskOk)
               ELSE RefreshLoaded(S, i, outcome, env.diskOk))
  /\ Async("modelsListed")

\* the Refresh handler resumes after `await saveSettings()`
ModelsSaved ==
  /\ settingTab.saving > 0
  /\ Install(RefreshSaved(S, env.diskOk))
  /\ Async("modelsSaved")

\* the user picks a model in the dropdown
SelectModel(value) ==
  /\ settingTab.shown
  /\ ~settingTab.disabled
  /\ Includes(settingTab.options, value)
  /\ value # settingTab.value
  /\ Install(DropdownChanged(S, value, env.diskOk))
  /\ UserEvent("selectModel")
  /\ rt' = RtNone
  /\ Cancelling({})

NextModels ==
  \/ OpenSettings
  \/ RefreshModels
  \/ \E i \in 1..(ModelEvents + 1) : \E outcome \in ListOutcomes :
       ModelsListed(i, outcome)
  \/ ModelsSaved
  \/ \E value \in ModelIds : SelectModel(value)

SpecModels == InitModels /\ [][NextModels]_vars

\* any other caller of getOllamaClient (main.ts 261 passes no options; the
\* function is exported and takes any)
ClientRequested(options) ==
  /\ Install(CallGetOllamaClient(S, options))
  /\ lastOp' = Op("getOllamaClient", <<>>)
  /\ rt' = RtNone
  /\ Cancelling({})
  /\ UNCHANGED <<env, budget>>

\* one turn, and calls of getOllamaClient with any options at any moment
NextClient ==
  \/ \E text \in Texts : Submit(text)
  \/ TaskStep
  \/ \E options \in ClientOptions : ClientRequested(options)

SpecClient == InitClient /\ [][NextClient]_vars

\* ================================================================== claims
\* what a handler of the chat view can change of the program's own state
ProgramState ==
  <<heap, messages, chatHistory, durable, tasks, isSending,
    currentAbortController, currentFilePath, activeFile>>

\* the Response entry a generation in flight writes to
ResponseOf(t) == heap[tasks[t].arr][tasks[t].idx]

HasEmptyResponse(log) ==
  \E i \in 1..Len(log) : log[i].type = "response" /\ log[i].content = <<>>

NumRequests(log) == Cardinality({i \in 1..Len(log) : log[i].type = "request"})

\* C1: at most one chat generation is in flight at any time.
C1_AtMostOneGeneration == Cardinality(InFlight) <= 1

\* C2: the log stored for a document K, durably or in the settings, and the
\* in-memory log while K is current, hold only entries of turns that were
\* submitted while K was the current document.
OnlyTurnsOf(log, d) == \A i \in 1..Len(log) : tasks[log[i].turn].doc = d

C2_NoCrossContamination ==
  \A d \in Docs :
    /\ OnlyTurnsOf(GetChatHistory(S, d), d)
    /\ OnlyTurnsOf(durable[d].log, d)
    /\ currentFilePath = d => OnlyTurnsOf(MsgLog(S), d)

\* C3: after switching from document A to document B and straight back to A,
\* the in-memory log equals the log that was shown for A before the first switch.
C3_SwitchRoundTrip == rt.phase = 2 => MsgLog(S) = rt.log

\* C4: sendMessage while isSending changes nothing: not the log, not the stored
\* histories, not the generation in flight, and it starts no generation.
C4_SubmitWhileSendingNoOp ==
  [][(lastOp'.op = "sendMessage" /\ isSending) => UNCHANGED ProgramState]_vars

C4_Witness ==
  /\ lastOp.op = "sendMessage"
  /\ Trim(lastOp.text) # <<>>
  /\ isSending
  /\ \E t \in TaskIds : tasks[t].pc = "stream"
  /\ budget.turns > 0

\* C5: sendMessage with a text that is not empty after trimming, while not
\* sending, appends exactly one Request entry holding the trimmed text; no
\* Response entry of that turn exists before, and one that appears comes after
\* the Request entry.
C5_SubmitAppendsOneRequest ==
  [][(lastOp'.op = "sendMessage" /\ Trim(lastOp'.text) # <<>> /\ ~isSending) =>
       LET old == heap[messages]
           new == heap'[messages']
           t == NextTurn
       IN /\ messages' = messages
          /\ Len(new) >= Len(old) + 1
          /\ SubSeq(new, 1, Len(old) + 1)
               = Append(old, RequestEntry(Trim(lastOp'.text), t))
          /\ NumRequests(new) = NumRequests(old) + 1
          /\ \A a \in ArrIds : \A i \in 1..Len(heap[a]) : heap[a][i].turn # t
          /\ \A i \in (Len(old) + 2)..Len(new) : new[i] = Placeholder(t)
     ]_vars

C5_Witness ==
  /\ lastOp.op = "sendMessage"
  /\ lastOp.text = <<" ", "q", " ">>
  /\ tasks[1].pc = "persist"
  /\ MsgLog(S) = <<RequestEntry(<<"q">>, 1)>>

\* C6: sendMessage with a text that is empty after trimming changes nothing and
\* issues no request.
C6_BlankSubmitNoOp ==
  [][(lastOp'.op = "sendMessage" /\ Trim(lastOp'.text) = <<>>)
       => UNCHANGED ProgramState]_vars

C6_Witness ==
  /\ lastOp.op = "sendMessage"
  /\ lastOp.text # <<>>
  /\ Trim(lastOp.text) = <<>>
  /\ ~isSending
  /\ budget.turns > 0

\* C7: while a stream is read and when it has ended, the Response entry of the
\* turn holds the concatenation, in delivery order, of the deltas delivered.
C7_ResponseIsConcatenation ==
  \A t \in TaskIds :
    tasks[t].pc \in {"stream", "persist2"}
      => ResponseOf(t).content = Concat(tasks[t].deltas)

C7_Witness ==
  \E t \in TaskIds :
    /\ tasks[t].pc = "persist2"
    /\ tasks[t].deltas = <<<<"H", "e", "l">>, <<>>, <<"l", "o">>>>
    /\ ResponseOf(t).content = <<"H", "e", "l", "l", "o">>

C7_WitnessHello ==
  \E t \in TaskIds :
    /\ tasks[t].pc = "persist2"
    /\ tasks[t].deltas = <<<<"H", "e", "l">>, <<"l", "o">>, <<"!">>>>
    /\ ResponseOf(t).content = <<"H", "e", "l", "l", "o", "!">>

\* a click on Reset or Clear All History that aborts the stream of turn t
CancelsMidStream(t) ==
  /\ tasks[t].pc = "stream"
  /\ currentAbortController = t
  /\ ResponseOf(t).content # <<>>
  /\ lastOp'.op \in {"resetConversation", "clearAllHistory"}

\* C8 as stated: cancelling mid-stream leaves the accumulated response text in
\* the in-memory log, returns to Idle and invokes no persistence call.
C8_CancelKeepsPartialText ==
  [][\A t \in TaskIds : CancelsMidStream(t) =>
       /\ \E i \in 1..Len(heap'[messages']) : heap'[messages'][i] = ResponseOf(t)
       /\ ~isSending'
       /\ chatHistory' = chatHistory
       /\ durable' = durable
     ]_vars

\* C8 amended: cancelling mid-stream returns to Idle and aborts the request; the
\* accumulated text does not stay in the in-memory log (Reset empties the log at
\* once, Clear All History when its save has completed), and the cancelling
\* operation itself persists: Reset the empty log of the current document,
\* Clear All History an empty history map.
C8_CancelClearsLog ==
  [][/\ \A t \in TaskIds : CancelsMidStream(t) =>
          /\ ~isSending'
          /\ tasks'[t].aborted
          /\ lastOp'.op = "resetConversation" =>
               /\ heap'[messages'] = <<>>
               /\ currentFilePath # NoFile =>
                    /\ chatHistory'[currentFilePath] # 0
                    /\ heap'[chatHistory'[currentFilePath]] = <<>>
                    /\ env.diskOk =>
                         durable'[currentFilePath] = [present |-> TRUE, log |-> <<>>]
          /\ lastOp'.op = "clearAllHistory" =>
               /\ \A d \in Docs : chatHistory'[d] = 0
               /\ env.diskOk => \A d \in Docs : ~durable'[d].present
     /\ lastOp'.op = "resumeClearAll" => heap'[messages'] = <<>>
    ]_vars

C8_Witness ==
  /\ lastOp.op = "resetConversation"
  /\ \E t \in TaskIds : tasks[t].pc = "stream" /\ tasks[t].aborted
                        /\ tasks[t].deltas # <<>> /\ ResponseOf(t).content # <<>>
  /\ MsgLog(S) = <<>>
  /\ ~isSending

\* C9: when resetConversation has run, the in-memory log is empty, the view is
\* not sending, and getChatHistory of the current document is empty.
C9_ResetEmptiesLog ==
  lastOp.op = "resetConversation" =>
    /\ MsgLog(S) = <<>>
    /\ ~isSending
    /\ GetChatHistory(S, currentFilePath) = <<>>
    /\ currentFilePath # NoFile => chatHistory[currentFilePath] # 0

C9_Witness ==
  /\ lastOp.op = "resetConversation"
  /\ currentFilePath \in Docs
  /\ \E t \in TaskIds : tasks[t].pc \in GenPcs /\ tasks[t].aborted

\* C10: no flush writes a Response entry with empty text to durable storage.
C10_NoEmptyResponsePersisted ==
  \A d \in Docs : ~HasEmptyResponse(durable[d].log)

\* the Notices the last step showed
NoticesShown == {effects.notices[i] : i \in 1..Len(effects.notices)}

\* C11: when a generation ends with an error, the "Chat failed" Notice is shown
\* if and only if the error was not caused by an abort of the request (Reset or
\* Clear All History): every backend failure shows it, every abort shows none.
C11_NoticeIffNotCancelled ==
  \A i \in 1..Len(effects.caught) :
    (ChatFailedNotice \in NoticesShown) <=> ~effects.caught[i].cancelled

\* C12: a generation that ends without cancellation, by exhaustion of the stream
\* or by a failure of the backend, calls setChatHistory with the full in-memory
\* log for the current document, and the view is Idle when the generation is done.
EndsUncancelled(t) ==
  /\ tasks[t].pc \in {"request", "stream"}
  /\ ~tasks[t].aborted
  /\ tasks'[t].pc \in {"persist2", "done"}
  /\ currentFilePath # NoFile

C12_PersistsOnEveryUncancelledEnd ==
  [][\A t \in TaskIds : EndsUncancelled(t) =>
       /\ \E i \in 1..Len(effects'.saves) :
            effects'.saves[i] = [fn |-> "setChatHistory",
                                 path |-> currentFilePath,
                                 log |-> heap'[messages']]
       /\ tasks'[t].pc = "done" => ~isSending'
    ]_vars

\* C13: every turn terminates: whenever the view is sending it is idle again
\* later, and every generation in flight reaches the end of its finally block,
\* given that every pending save, read, request and stream settles.
C13_EveryTurnTerminates ==
  /\ isSending ~> ~isSending
  /\ \A t \in TaskIds : (tasks[t].pc \in GenPcs) ~> (tasks[t].pc = "done")

C13_Witness ==
  /\ lastOp.op = "resumeGenerate"
  /\ ~isSending
  /\ \E t \in TaskIds : tasks[t].pc = "done"

\* C14: once Reset or Clear All History has run, a generation that was in
\* flight then (waiting for the file read, for the request or for the next
\* chunk) issues no request it had not yet issued and appends no further text to
\* its Response entry.
C14_CancelStopsGeneration ==
  [][\A t \in cancelled :
       /\ tasks'[t].pc = "request" => tasks[t].pc = "request"
       /\ tasks'[t].pc \in GenPcs =>
            heap'[tasks'[t].arr][tasks'[t].idx].content = ResponseOf(t).content
    ]_vars

\* C15: a document change to an identifier other than the current one makes
\* that identifier current and makes the in-memory log equal to the log the
\* settings hold for it (empty if none); an outgoing document with a non-empty
\* log has that log stored under its identifier by a setChatHistory call.
C15_DocumentChangeSwitchesLog ==
  [][(lastOp'.op = "onActiveFileChanged" /\ activeFile' # currentFilePath) =>
       /\ currentFilePath' = activeFile'
       /\ heap'[messages'] = GetChatHistory(S, activeFile')
       /\ (currentFilePath # NoFile /\ heap[messages] # <<>>) =>
            /\ chatHistory'[currentFilePath] # 0
            /\ heap'[chatHistory'[currentFilePath]] = heap[messages]
            /\ effects'.saves = <<[fn |-> "setChatHistory",
                                   path |-> currentFilePath,
                                   log |-> heap[messages]]>>
            /\ env.diskOk =>
                 durable'[currentFilePath] = [present |-> TRUE, log |-> heap[messages]]
    ]_vars

C15_Witness ==
  /\ lastOp.op = "onActiveFileChanged"
  /\ rt.phase = 2
  /\ currentFilePath = DocSeq[1]
  /\ MsgLog(S) # <<>>
  /\ GetChatHistory(S, DocSeq[2]) = <<>>

\* the message list the claim describes for a request: the system instruction,
\* the context message if `withContext`, then the entries of `log` in order
\* with a trailing empty Response left out
WithoutTrailingPlaceholder(log) ==
  IF log # <<>> /\ log[Len(log)].type = "response" /\ log[Len(log)].content = <<>>
    THEN SubSeq(log, 1, Len(log) - 1)
    ELSE log

RoleOf(entry) == IF entry.type = "request" THEN "user" ELSE "assistant"

ExpectedMessages(file, withContext, log) ==
  LET rest == WithoutTrailingPlaceholder(log)
  IN <<SystemPrompt>>
       \o (IF withContext THEN <<FileAsUser(file, FileContents(file))>> ELSE <<>>)
       \o [i \in 1..Len(rest) |-> [role |-> RoleOf(rest[i]), content |-> rest[i].content]]

\* C16 as stated: every request carries the system instruction, one context
\* message exactly if a document is active, and the log without a trailing
\* empty Response.
C16_RequestMessageList ==
  \A i \in 1..Len(effects.requests) :
    LET r == effects.requests[i]
    IN r.messages = ExpectedMessages(r.file, r.file # NoFile, r.log)

\* C16 amended: the context message is there exactly if a document is active
\* and its text could be read; then come the entries of the log the list was
\* built from (chatView.ts 271), in order, a Request as user and a Response as
\* assistant, without the trailing empty Response.
C16_RequestMessageListIfRead ==
  \A i \in 1..Len(effects.requests) :
    LET r == effects.requests[i]
    IN r.messages = ExpectedMessages(r.file, r.file # NoFile /\ r.read = "ok", r.log)

\* the request of a second turn: after the context message it carries the
\* first turn's Request, its Response as assistant, and the new Request
C16_Witness ==
  \E i \in 1..Len(effects.requests) :
    LET r == effects.requests[i]
    IN /\ r.read = "ok"
       /\ r.file = DocSeq[1]
       /\ Len(r.log) = 4
       /\ r.messages = <<SystemPrompt, FileAsUser(DocSeq[1], FileContents(DocSeq[1])),
                         [role |-> "user", content |-> <<"q">>],
                         [role |-> "assistant", content |-> <<"H">>],
                         [role |-> "user", content |-> <<"q">>]>>

IsPrefix(p, q) == Len(p) <= Len(q) /\ SubSeq(q, 1, Len(p)) = p

\* C17 as stated: an accepted submit appends the Request, then persists the
\* log, then enters the sending state, then issues the request; the view is not
\* sending unless a turn has appended and persisted before.
C17_SubmitOrder ==
  /\ \A t \in TaskIds :
       IsPrefix(tasks[t].order, <<"append", "persist", "sending", "request">>)
  /\ isSending => \E t \in TaskIds : Len(tasks[t].order) >= 3

\* C17 amended: that order when a document is current; with no current document
\* there is no persistence call and the order is append, sending, request.
C17_SubmitOrderPerDocument ==
  /\ \A t \in TaskIds :
       IsPrefix(tasks[t].order,
                IF tasks[t].doc # NoFile
                  THEN <<"append", "persist", "sending", "request">>
                  ELSE <<"append", "sending", "request">>)
  /\ isSending => \E t \in TaskIds :
                    \E i \in 2..Len(tasks[t].order) : tasks[t].order[i] = "sending"

C17_Witness ==
  \E t \in TaskIds :
    /\ tasks[t].pc = "request"
    /\ tasks[t].order = <<"append", "persist", "sending", "request">>
    /\ isSending

\* C18: once a handle is cached it is never replaced or cleared, and every call
\* of getOllamaClient returns the cached handle, whatever options it is given.
C18_SingletonByFirstUse ==
  [][/\ cachedClient # NoClient => cachedClient' = cachedClient
     /\ \A i \in 1..Len(effects'.clients) :
          /\ effects'.clients[i].handle = cachedClient'
          /\ cachedClient # NoClient => effects'.clients[i].handle = cachedClient
    ]_vars

\* a later call with other options got the handle the first call constructed
C18_Witness ==
  /\ Len(effects.clients) = 1
  /\ effects.clients[1].options.baseURL # Undefined
  /\ effects.clients[1].handle = cachedClient
  /\ cachedClient.baseURL = OLLAMA_BASE_URL
  /\ cachedClient.serial = 1

\* a save has been called and its write has not completed
SavePending ==
  \/ clearPending > 0
  \/ \E t \in TaskIds : tasks[t].pc \in {"persist", "persist2"}

\* C19: every change of the in-memory settings is followed by a save, so
\* whenever no handler is in progress and no save is pending (and the disk
\* takes the writes), what is stored equals the in-memory settings.
C19_DurableEqualsSettings ==
  (env.diskOk /\ ~SavePending /\ InFlight = {}) => durable = Snapshot(S)

\* C20: recommendationsPanel.refresh() is never called at a moment when
\* settings.enableRecommendations is false, be it by onOpen, by a document
\* change (the delayed refresh included) or by the settings toggle.
C20_NoRefreshWhileDisabled ==
  \A i \in 1..Len(effects.refreshes) : effects.refreshes[i].enabled

\* no handler of the chat view is waiting for an await to settle
Quiescent ==
  /\ clearPending = 0
  /\ \A t \in TaskIds : tasks[t].pc \in {"idle", "done"}

\* C21: whenever every operation has completed, the Reset button is displayed
\* if and only if a file is current and the in-memory log is not empty.
C21_ResetShownIffHistory ==
  Quiescent => (resetVisible <=> (currentFilePath # NoFile /\ Len(heap[messages]) > 0))

\* The operations of the view that save, applied to the present state: for each
\* the state it leaves when the write fails (fails) and when it succeeds (saved).
SaveOutcomes ==
  {[op |-> "sendMessage",
    fails |-> SendMessage(S, text, NextTurn, FALSE),
    saved |-> SendMessage(S, text, NextTurn, TRUE)] :
      text \in IF FreeTurns # {} THEN Texts ELSE {}}
  \cup
  {[op |-> "generateAssistantResponse",
    fails |-> StreamFinished(S, t, FALSE),
    saved |-> StreamFinished(S, t, TRUE)] :
      t \in {u \in TaskIds : tasks[u].pc = "stream"}}
  \cup
  {[op |-> "resetConversation",
    fails |-> ResetConversation(S, FALSE),
    saved |-> ResetConversation(S, TRUE)]}
  \cup
  {[op |-> "clearAllHistory",
    fails |-> AfterClearAll(ClearAllHistory(S, FALSE), FALSE),
    saved |-> AfterClearAll(ClearAllHistory(S, TRUE), TRUE)]}
  \cup
  {[op |-> "onActiveFileChanged",
    fails |-> OnActiveFileChanged([S EXCEPT !.active = new], FALSE),
    saved |-> OnActiveFileChanged([S EXCEPT !.active = new], TRUE)] :
      new \in Paths}

\* but for what is stored and the notices, the two outcomes are the same state
AsIfSaved(o) ==
  [o.fails EXCEPT !.durable = o.saved.durable,
                  !.fx.notices = o.saved.fx.notices] = o.saved

\* C22 as stated: a failing save shows no notice in any operation, and the
\* session goes on as if the save had succeeded.
C22_SaveFailureNeverSurfaced ==
  \A o \in SaveOutcomes : o.fails.fx.notices = <<>> /\ AsIfSaved(o)

\* C22 amended: the same, except that Clear All History shows the notice
\* "Failed to clear all chat history".
C22_SaveFailureSurfacedOnlyByClearAll ==
  \A o \in SaveOutcomes :
    /\ AsIfSaved(o)
    /\ o.fails.fx.notices = IF o.op = "clearAllHistory"
                              THEN <<"Failed to clear all chat history">>
                              ELSE <<>>

\* a failed save of a non-empty log has just been passed over in silence
C22_Witness ==
  /\ ~env.diskOk
  /\ \E i \in 1..Len(effects.saves) :
       effects.saves[i].fn = "setChatHistory" /\ effects.saves[i].log # <<>>
  /\ effects.notices = <<>>
  /\ \A d \in Docs : ~durable[d].present
  /\ Len(heap[messages]) > 0

\* the steps that replace the in-memory log: reset, the second half of
\* clear-all, and a document change
ReplacesLog(op) ==
  op \in {"resetConversation", "resumeClearAll", "onActiveFileChanged"}

\* entry i of the in-memory log is the Response a running stream writes to
InFlightResponse(i) ==
  \E t \in TaskIds :
    tasks[t].pc = "stream" /\ tasks[t].arr = messages /\ tasks[t].idx = i

\* C23: a step that is not a reset, clear-all or document switch keeps every
\* entry of the in-memory log in place, may append entries at the end, and
\* changes an entry only by extending the text of the in-flight Response.
C23_LogAppendOnly ==
  [][~ReplacesLog(lastOp'.op) =>
       LET old == heap[messages]
           new == heap'[messages']
       IN /\ Len(new) >= Len(old)
          /\ \A i \in 1..Len(old) :
               \/ new[i] = old[i]
               \/ /\ InFlightResponse(i)
                  /\ old[i].type = "response"
                  /\ new[i] = [old[i] EXCEPT !.content = new[i].content]
                  /\ IsPrefix(old[i].content, new[i].content)
    ]_vars

\* a chunk has just extended the in-flight Response of the in-memory log, after
\* an earlier chunk
C23_Witness ==
  /\ lastOp.op = "streamDelta"
  /\ \E t \in TaskIds :
       /\ tasks[t].pc = "stream"
       /\ tasks[t].arr = messages
       /\ Len(tasks[t].deltas) >= 2
       /\ tasks[t].deltas[1] # <<>>
       /\ tasks[t].deltas[2] # <<>>
       /\ heap[messages][tasks[t].idx].content = tasks[t].deltas[1] \o tasks[t].deltas[2]

\* C24: a failure while listing models gives the caller the empty list and
\* shows a Notice, nothing is thrown, and settings.defaultModel stays as it was.
C24_ListFailureIsEmptyListAndNotice ==
  [][\A i \in 1..Len(effects'.listings) :
       effects'.listings[i].failed =>
         /\ effects'.listings[i].models = <<>>
         /\ ~effects'.listings[i].thrown
         /\ effects'.notices = <<ListFailedNotice>>
         /\ defaultModel' = defaultModel
    ]_vars

\* a Refresh failed after a default model had been chosen from an earlier list
C24_Witness ==
  /\ Len(effects.listings) = 1
  /\ effects.listings[1].failed
  /\ effects.notices = <<ListFailedNotice>>
  /\ defaultModel = "m2"
  /\ settingTab.options = <<"">>
  /\ ~settingTab.btnDisabled

\* C25: a refresh that is not forced, for a document whose suggestion set is
\* cached, returns the cached set unchanged and issues no request.
C25_RefreshMemoized ==
  [][(/\ panel.has
      /\ panel.doc = activeFile'
      /\ Len(effects'.refreshes) > 0)
       => /\ effects'.recRequests = <<>>
          /\ effects'.suggested = <<panel.set>>
          /\ panel' = panel
    ]_vars

\* a delayed refresh for the document whose set is cached was answered from
\* the cache
C25_Witness ==
  /\ lastOp.op = "refreshTimer"
  /\ panel.has
  /\ panel.doc = activeFile
  /\ panel.doc = DocSeq[1]
  /\ effects.suggested = <<panel.set>>
  /\ effects.recRequests = <<>>

\* the request that has just delivered a payload to the parser
Parsed(e) == ~e.aborted /\ ~e.failed

\* C26: whatever the payload, the parser yields a set that is not empty and does
\* not throw (the panel is ready, not in the error state); for a payload that
\* is neither a structured list nor marked lines the set is the built-in one.
C26_ParserNeverEmpty ==
  \A i \in 1..Len(effects.settled) :
    Parsed(effects.settled[i]) =>
      /\ panel.status = "ready"
      /\ panel.set # <<>>
      /\ \A k \in 1..Len(panel.set) : panel.set[k] # <<>>
      /\ (/\ ~ParseStructured(effects.settled[i].payload).ok
          /\ ParseLines(effects.settled[i].payload) = <<>>)
           => panel.set = FallbackQuestions

\* a payload that is neither a list nor marked lines has just been parsed
C26_Witness ==
  /\ Len(effects.settled) = 1
  /\ Parsed(effects.settled[1])
  /\ effects.settled[1].payload = <<"[", Quote, "a", Quote, ",", "]">>
  /\ panel.set = FallbackQuestions

\* the requests of the panel that are in flight and not cancelled
LiveFetches(p) == {i \in 1..Len(p.fetches) : ~p.fetches[i].aborted}

\* C27: at most one recommendation request is in flight and not cancelled; a
\* refresh that issues a request has cancelled every earlier one; when a
\* cancelled request settles, the set, its document and the status stay as
\* they are (its result is not installed, the panel does not enter the error
\* state).
C27_OneFetchInFlight ==
  [][/\ Cardinality(LiveFetches(panel')) <= 1
     /\ effects'.recRequests # <<>> =>
          /\ LiveFetches(panel') = {Len(panel'.fetches)}
          /\ panel'.status = "loading"
     /\ \A i \in 1..Len(effects'.settled) :
          effects'.settled[i].aborted =>
            [panel' EXCEPT !.fetches = panel.fetches] = panel
    ]_vars

\* the request for the previous document, cancelled by the refresh for the
\* new one, has just settled while the new one is still loading
C27_Witness ==
  /\ lastOp.op = "recommendationsArrive"
  /\ Len(effects.settled) = 1
  /\ effects.settled[1].aborted
  /\ ~effects.settled[1].failed
  /\ effects.settled[1].doc = DocSeq[1]
  /\ activeFile = DocSeq[2]
  /\ panel.status = "loading"
  /\ ~panel.has
  /\ \E i \in LiveFetches(panel) : panel.fetches[i].doc = DocSeq[2]

\* C28: a document-change event for the document that is already current
\* changes nothing: the in-memory log, the current path, the stored and the
\* in-memory histories, the sending state and the suggestion anchor stay as
\* they are, nothing is saved and no refresh is scheduled or made.
C28_SameDocumentChangesNothing ==
  [][lastOp'.op = "activeLeafChange" =>
       /\ heap'[messages'] = heap[messages]
       /\ currentFilePath' = currentFilePath
       /\ durable' = durable
       /\ Snapshot(S)' = Snapshot(S)
       /\ isSending' = isSending
       /\ suggestionAnchorIndex' = suggestionAnchorIndex
       /\ refreshTimers' = refreshTimers
       /\ screen' = screen
       /\ pendingRenders' = pendingRenders
       /\ activeResponseContentEl' = activeResponseContentEl
       /\ effects'.saves = <<>>
       /\ effects'.refreshes = <<>>
    ]_vars

\* the event arrived for the current document in the middle of a turn, with
\* entries added since the log was loaded
C28_Witness ==
  /\ lastOp.op = "activeLeafChange"
  /\ currentFilePath = activeFile
  /\ currentFilePath # NoFile
  /\ isSending
  /\ Len(heap[messages]) > suggestionAnchorIndex

\* C29: when clear-all-history has completed (its save went through), the
\* stored chat history of every document is empty, the in-memory log is empty
\* and the view is not sending, whatever happened while it waited for the save.
C29_ClearAllLeavesNothing ==
  (lastOp.op = "resumeClearAll" /\ env.diskOk) =>
     /\ \A d \in Docs : durable[d].log = <<>>
     /\ \A d \in Docs : GetChatHistory(S, d) = <<>>
     /\ heap[messages] = <<>>
     /\ ~isSending

\* the stream of turn t ends in this step, and nothing has cancelled it
StreamExhausted(t) ==
  /\ tasks[t].pc = "stream"
  /\ lastOp'.op = "streamEnd"
  /\ tasks'[t].pc # "stream"
  /\ ~tasks[t].aborted
  /\ t \notin cancelled

\* every bubble on display for the response of turn t shows `text`
Displays(t, text) ==
  \A i \in 1..Len(heap[messages]) :
     (heap[messages][i].type = "response" /\ heap[messages][i].turn = t)
        => (i \in DOMAIN screen /\ screen[i] = text)

\* C30: when the stream of a turn has been exhausted without cancellation, the
\* text on display for its response is the whole accumulated response text,
\* whichever of the renders after the chunks were skipped, as soon as the
\* renders asked for have completed.
C30_FinalRenderShowsAll ==
  \A t \in TaskIds :
     (tasks[t].end.exhausted /\ pendingRenders = <<>>)
        => Displays(t, tasks[t].end.text)

\* the conversation part of a request: what follows the system instruction
\* and the context message
ConversationPart(r) ==
  SubSeq(r.messages, IF r.read = "ok" THEN 3 ELSE 2, Len(r.messages))

\* user, assistant, user, ..., user
Alternates(conv) ==
  /\ Len(conv) % 2 = 1
  /\ \A i \in 1..Len(conv) :
       conv[i].role = (IF i % 2 = 1 THEN "user" ELSE "assistant")

\* C31: the conversation part of every outgoing message list alternates user
\* and assistant roles, starts with a user message and ends with the user
\* message of the turn being answered, and holds no assistant message with
\* empty text.
C31_RequestAlternates ==
  \A k \in 1..Len(effects.requests) :
    LET conv == ConversationPart(effects.requests[k])
    IN /\ Alternates(conv)
       /\ \A i \in 1..Len(conv) :
            conv[i].role = "assistant" => conv[i].content # <<>>

\* C32: after a model-list load or refresh that returns a non-empty list, the
\* stored default model is in that list: the one stored before if it is listed,
\* the first listed model otherwise; and when it has changed, saveSettings was
\* called.
C32_DefaultModelIsListed ==
  [][\A i \in 1..Len(effects'.listings) :
       LET models == effects'.listings[i].models
       IN (lastOp'.op = "modelsListed" /\ models # <<>>) =>
            /\ Includes(models, defaultModel')
            /\ defaultModel' = (IF Includes(models, defaultModel)
                                  THEN defaultModel ELSE models[1])
            /\ settingTab'.value = defaultModel'
            /\ (defaultModel' # defaultModel =>
                  \E k \in 1..Len(effects'.saves) :
                     effects'.saves[k].fn = "saveSettings")
    ]_vars

\* the stored default was not in the list: it was replaced by the first listed
\* model, and saved
C32_Witness ==
  /\ lastOp.op = "modelsListed"
  /\ Len(effects.listings) = 1
  /\ effects.listings[1].models = <<"m2", "m1">>
  /\ defaultModel = "m2"
  /\ settingTab.value = "m2"
  /\ Len(effects.saves) = 1
  /\ effects.saves[1].fn = "saveSettings"

\* the generations in flight whose abort signal has not been raised
Running == {t \in InFlight : ~tasks[t].aborted}

\* the generation of turn t ends in this step: completion, failure or abort
Ends(t) == tasks[t].pc \in GenPcs /\ tasks'[t].pc = "done"

\* C33: the view is sending exactly while a generation is in flight (one that
\* was aborted and has not yet returned is not counted), and the step in which
\* a generation ends leaves the Sending flag and the abort controller of
\* another generation in flight as they were.
C33_SendingTracksGeneration ==
  [][/\ (isSending <=> Running # {})'
     /\ \A t \in TaskIds : \A u \in Running \ {t} :
          (Ends(t) /\ u \in Running') =>
             /\ isSending' = isSending
             /\ (currentAbortController = u => currentAbortController' = u)
    ]_vars

\* C34: the in-memory log and the histories held in settings.chatHistory share
\* no mutable state: a step that calls none of setChatHistory, clearChatHistory
\* and clearAllChatHistory (appending the placeholder, a chunk of the stream)
\* changes the history the settings hold for no document.
C34_StoreSharesNothing ==
  [][effects'.saves = <<>> =>
       \A d \in Docs : GetChatHistory(S, d)' = GetChatHistory(S, d)]_vars

\* C35: a submit and a reset write only the history of the document that is
\* current when they are invoked: every persistence call they make names that
\* document; the history of every other document stays as it was in the
\* settings, and so does what is saved of it (if it was saved as the settings
\* held it: saveData writes the settings whole); and with no current document
\* they make no persistence call and write nothing.
C35_WritesOnlyCurrentDocument ==
  [][lastOp'.op \in {"sendMessage", "resetConversation"} =>
       /\ \A k \in 1..Len(effects'.saves) :
            /\ effects'.saves[k].fn = "setChatHistory"
            /\ effects'.saves[k].path = currentFilePath
       /\ \A d \in Docs \ {currentFilePath} :
            /\ GetChatHistory(S, d)' = GetChatHistory(S, d)
            /\ (durable[d] = Snapshot(S)[d] => durable'[d] = durable[d])
       /\ currentFilePath = NoFile =>
            /\ effects'.saves = <<>>
            /\ durable' = durable
    ]_vars

\* a reset in a.md has stored the empty log while the settings hold a history
\* for b.md
C35_Witness ==
  /\ lastOp.op = "resetConversation"
  /\ currentFilePath = DocSeq[1]
  /\ Len(effects.saves) = 1
  /\ GetChatHistory(S, DocSeq[2]) # <<>>

Last(q) == q[Len(q)]

\* turn t was submitted in document A, and while its stream was open the
\* document changed from A to B, or from A to B and back to A, and no more
SwitchedWhileStreaming(t, A, B) ==
  LET m == tasks[t].moved
  IN /\ tasks[t].doc = A
     /\ Len(m) \in {1, 2}
     /\ m[1].from = A /\ m[1].to = B
     /\ Len(m) = 2 => m[2].to = A

\* C36: if the document changes from A to B, or from A to B and back to A,
\* while a response is streaming, and the stream then ends without
\* cancellation, the history stored for A ends with the Response entry that
\* holds the whole concatenated response, and the history stored for B is the
\* one B had.
C36_SwitchDuringStream ==
  [][\A t \in TaskIds : \A A, B \in Docs :
       (StreamExhausted(t) /\ SwitchedWhileStreaming(t, A, B)) =>
          LET stored == GetChatHistory(S, A)'
          IN /\ stored # <<>>
             /\ Last(stored).type = "response"
             /\ Last(stored).turn = t
             /\ Last(stored).content = Concat(tasks[t].deltas)
             /\ env.diskOk => durable'[A].log = stored
             /\ GetChatHistory(S, B)' = tasks[t].moved[1].held
    ]_vars

\* the step replaces the in-memory log: a load, a reset, or the end of clear-all
Replaces ==
  \/ lastOp'.op = "onActiveFileChanged" /\ currentFilePath' # currentFilePath
  \/ lastOp'.op \in {"resetConversation", "resumeClearAll"}

\* C37: the suggestion anchor is between 0 and the length of the in-memory log,
\* so the recommendations panel is rendered right after the first
\* suggestionAnchorIndex entries.  A load puts it after the whole loaded
\* history and a reset before everything; any other step leaves it and the
\* entries before it as they are: what is added since is rendered after it.
C37_AnchorSplitsLog ==
  [][/\ (/\ 0 <= suggestionAnchorIndex
         /\ suggestionAnchorIndex <= Len(heap[messages])
         /\ PanelPosition(S) = suggestionAnchorIndex)'
     /\ IF Replaces
          THEN /\ suggestionAnchorIndex' = Len(heap'[messages'])
               /\ lastOp'.op # "onActiveFileChanged" => heap'[messages'] = <<>>
               /\ lastOp'.op = "onActiveFileChanged" =>
                    heap'[messages'] = GetChatHistory(S, currentFilePath)'
          ELSE /\ suggestionAnchorIndex' = suggestionAnchorIndex
               /\ Len(heap'[messages']) >= Len(heap[messages])
               /\ SubSeq(heap'[messages'], 1, suggestionAnchorIndex)
                    = SubSeq(heap[messages], 1, suggestionAnchorIndex)
    ]_vars

\* a history was loaded and an entry has been added since: the panel stands
\* between them
C37_Witness ==
  /\ 0 < suggestionAnchorIndex
  /\ suggestionAnchorIndex < Len(heap[messages])
  /\ lastOp.op # "onActiveFileChanged"

====
